---- MODULE Spec2Model ----
(***************************************************************************)
(* A model of osaka's tool-orchestration core: the file tools, the backup  *)
(* manager, the edit history with undo, the multi-file editor, the command *)
(* runner with its safety check, the tool dispatcher and the chat loop.    *)
(*                                                                         *)
(* Text is a sequence of one-character strings.  A path is a record        *)
(* [dir, base, ts]: ts = NoTs for an ordinary file dir/base, and ts >= 0   *)
(* for the backup file  BACKUP_DIR/<base>_<ts>.backup.                     *)
(***************************************************************************)
EXTENDS Integers, Sequences, FiniteSets, TLC

\* ------------------------------------------------------------------ bounds
MaxClock == 1
MaxMut == 2
MaxSpawned == 2
MaxCalls == 3
MaxTurns == 2

\* ------------------------------------------------------------------- text
UpperLetters == <<"X", "R", "M", "F", "D", "K", "S", "O", "A", "T", "E", "I", "Q", "U">>
LowerLetters == <<"x", "r", "m", "f", "d", "k", "s", "o", "a", "t", "e", "i", "q", "u">>

\* the ASCII letters, digits and "_" that occur in the modelled texts
WordChars == {UpperLetters[i] : i \in 1..Len(UpperLetters)}
             \cup {LowerLetters[i] : i \in 1..Len(LowerLetters)}
             \cup {"y", "i", "l", "e", "v", "c", "h", "1", "_"}

\* str.lower() on one character
LowerChar(c) ==
    IF \E i \in 1..Len(UpperLetters) : UpperLetters[i] = c
    THEN LowerLetters[CHOOSE i \in 1..Len(UpperLetters) : UpperLetters[i] = c]
    ELSE c

\* str.lower()
Lower(s) == [i \in 1..Len(s) |-> LowerChar(s[i])]

\* s starts with prefix p at index i (1-based)
MatchAt(s, p, i) == /\ i + Len(p) - 1 <= Len(s)
                    /\ \A k \in 1..Len(p) : s[i + k - 1] = p[k]

\* `old in content`
Contains(content, old) == \E i \in 1..(Len(content) + 1) : MatchAt(content, old, i)

\* str.replace(old, new) from index i on: leftmost, non-overlapping
\* occurrences; an empty old matches before every character and at the end
RECURSIVE ReplaceFrom(_, _, _, _)
ReplaceFrom(s, old, new, i) ==
    IF i > Len(s) THEN (IF old = <<>> THEN new ELSE <<>>)
    ELSE IF old = <<>> THEN new \o <<s[i]>> \o ReplaceFrom(s, old, new, i + 1)
    ELSE IF MatchAt(s, old, i) THEN new \o ReplaceFrom(s, old, new, i + Len(old))
    ELSE <<s[i]>> \o ReplaceFrom(s, old, new, i + 1)

\* content.replace(old_text, new_text)
Replace(s, old, new) == ReplaceFrom(s, old, new, 1)

\* str.count(sub) from index i on: non-overlapping occurrences
RECURSIVE CountFrom(_, _, _)
CountFrom(s, sub, i) ==
    IF sub = <<>> THEN Len(s) + 1
    ELSE IF i > Len(s) THEN 0
    ELSE IF MatchAt(s, sub, i) THEN 1 + CountFrom(s, sub, i + Len(sub))
    ELSE CountFrom(s, sub, i + 1)

\* content.count(old_text)
Count(s, sub) == CountFrom(s, sub, 1)

\* ------------------------------------------------------------ file system
BACKUP_DIR == ".osaka_backups"
NoTs == 0 - 1

UserPath(d, b) == [dir |-> d, base |-> b, ts |-> NoTs]

\* os.path.join(backup_dir, f"{basename}_{timestamp}.backup")
BackupPath(b, t) == [dir |-> BACKUP_DIR, base |-> b, ts |-> t]

\* the files a tool call may name
Paths == { UserPath(".", "a.txt"), UserPath("sub", "a.txt"), UserPath("new", "n.txt") }

\* files that exist beside them: a hidden file, a file in a hidden
\* directory, a binary file
HiddenFile == UserPath(".", ".env")
InHiddenDir == UserPath(".git", "c.txt")
BinaryFile == UserPath(".", "d.bin")

\* str.startswith('.') on a file or directory name
StartsWithDot(name) == name \in {".env", ".git", BACKUP_DIR}

\* a walk that does not skip the backup directory
BackupDirInRoot_never(top, d) == FALSE

\* `BACKUP_DIR in root`: a substring test on the walked directory's path
BackupDirInRoot(top, d) == d = BACKUP_DIR

\* fnmatch.fnmatch(filename, file_pattern) for the patterns a call may give
fnmatch(filename, file_pattern) ==
    CASE file_pattern = "*.txt" -> filename \in {"a.txt", "n.txt", "c.txt"}
      [] file_pattern = "*.py"  -> filename = "b.py"
      [] file_pattern = "*"     -> TRUE
      [] OTHER                  -> FALSE

\* f"{basename}_{timestamp}.backup": the file name of a backup, for the
\* backups of a.txt
BackupFileName(b, t) ==
    CASE b = "a.txt" /\ t = 0 -> "a.txt_0.backup"
      [] b = "a.txt" /\ t = 1 -> "a.txt_1.backup"
      [] b = "a.txt" /\ t = 2 -> "a.txt_2.backup"
      [] b = "a.txt" /\ t = 3 -> "a.txt_3.backup"

\* os.path.basename(path)
basename(p) == IF p.ts = NoTs THEN p.base ELSE BackupFileName(p.base, p.ts)

\* os.path.dirname(path): empty for a bare file name
dirname(p) == IF p.dir = "." THEN "" ELSE p.dir

\* os.path.exists(path) for a file path
exists(st, p) == p \in DOMAIN st.fs

\* the file system with file p holding content c
WriteFile(fsys, p, c) == [q \in (DOMAIN fsys) \cup {p} |-> IF q = p THEN c ELSE fsys[q]]

\* the file system without file p
RemoveFile(fsys, p) == [q \in (DOMAIN fsys) \ {p} |-> fsys[q]]

\* a byte sequence that is not UTF-8: open(..., encoding="utf-8").read()
\* raises UnicodeDecodeError on a file that holds one
BadByte == "0xFF"

\* a lone surrogate: a character a str can hold (a JSON "\udcff" gives it)
\* and UTF-8 cannot encode, so f.write raises UnicodeEncodeError on a text
\* that holds one
Surrogate == "0xDCFF"

Encodable(text) == \A i \in 1..Len(text) : text[i] # Surrogate

\* a decoder that never fails
Decodable_always(content) == TRUE

Decodable(content) == \A i \in 1..Len(content) : content[i] # BadByte

\* what a file opened with open(path, "r") gives for the bytes b from index
\* i on: newline is None, so "\r\n" and a lone "\r" are read as "\n"
RECURSIVE translate(_, _)
translate(b, i) ==
    IF i > Len(b) THEN <<>>
    ELSE IF b[i] = "\r"
         THEN <<"\n">> \o translate(b, IF i < Len(b) /\ b[i + 1] = "\n" THEN i + 2 ELSE i + 1)
         ELSE <<b[i]>> \o translate(b, i + 1)

\* f.read() on a file opened for reading as text
read(b) == translate(b, 1)

\* an optional value: <<>> is None, <<v>> is v
None == <<>>
Some(v) == <<v>>

\* ------------------------------------------------------------------ state
VARIABLES
    fs,            \* the files that exist: path -> content
    dirs,          \* the directories that exist
    edit_history,  \* AIAgent.edit_history, shared by the tool collections
    clock,         \* wall-clock time, in seconds
    spawned,       \* the commands handed to subprocess.run so far
    result,        \* the string the last dispatched tool call returned
    lastEdit,      \* the last call if it was edit_file, or edit_file and then
                   \* undo_last_edit: its path, the file's content before it
    nmut,          \* the number of mutations so far
    phase,         \* "mut": only successful mutations so far; "undo": these
                   \* followed by undo_last_edit calls only; else "other"
    mutLog,        \* while phase # "other": the mutations' targets, oldest first
    undoLog,       \* while phase # "other": what each undo acted on
    events,        \* the file operations of the last dispatched call, in order
    running,       \* the commands of which a process is still running
    lastBatch,     \* the last multi_file_edit that modified files, while only
                   \* undo_last_edit calls followed it: the files before it, the
                   \* files it modified and the number of undos since
    lastCall,      \* what the last dispatched call did: its tool, whether it
                   \* lacked a field the dispatcher indexes, the files it
                   \* changed, the history entries it pushed and popped
    series         \* the last run of successful Replace-branch edits, while
                   \* only undo_last_edit calls have followed it

toolVars == <<fs, dirs, edit_history, clock, spawned, result, lastEdit, nmut,
              phase, mutLog, undoLog, events, running, lastBatch, lastCall, series>>

VARIABLES
    messages,      \* AIAgent.messages: the conversation sent to the model
    pc,            \* where chat() is: "idle" (not running), "call" (about to
                   \* call the model), "tools" (in the loop over the response)
    response,      \* response.content of the last model call
    idx,           \* the block of the response the tool loop is at
    tool_results,  \* the tool_result blocks collected for this response
    returned,      \* what the last chat() returned
    ncalls,        \* the number of model calls that gave a response
    nturns,        \* the number of chat() calls
    nreturns       \* the number of times chat() returned

VARIABLES
    session,       \* main(): "running" while in its input loop, then "ended"
    eof,           \* the standard input is at its end
    lastInput,     \* what the last input() gave: "line", "empty", "quit",
                   \* "eof" or "interrupt"
    farewell       \* main() has printed "Goodbye!"

mainVars == <<session, eof, lastInput, farewell>>

chatVars == <<messages, pc, response, idx, tool_results, returned, ncalls, nturns,
              nreturns, mainVars>>

\* the agent's state as the tool collections see it
State == [fs |-> fs, dirs |-> dirs, edit_history |-> edit_history,
          clock |-> clock, spawned |-> spawned, result |-> result, events |-> <<>>,
          running |-> running]

\* a tool's return value: the message up to its first argument (msg), the
\* tool name a dispatcher message carries (name), the path an undo message
\* names (target), the lines that follow (report) and the numbers in it
Result(m, n, t, r, k) == [msg |-> m, name |-> n, target |-> t, report |-> r, nums |-> k]

Msg(m) == Result(m, "", None, <<>>, <<>>)

\* `return <message>` from a tool
Ret(st, m) == [st EXCEPT !.result = Msg(m)]

\* `return f"<message> {path} ..."`
RetPath(st, m, path) == [st EXCEPT !.result = Result(m, "", Some(path), <<>>, <<>>)]

\* one file operation: what it did (op), the file it read or wrote (path),
\* the file a copy wrote (to), the content the written file had before (old)
\* and has after (content)
Event(op, path, to, old, content) ==
    [op |-> op, path |-> path, to |-> to, old |-> old, content |-> content]

ContentOf(st, p) == IF p \in DOMAIN st.fs THEN Some(st.fs[p]) ELSE None

\* shutil.copy2(src, dst)
Copied(st, src, dst) ==
    [st EXCEPT !.fs = WriteFile(st.fs, dst, st.fs[src]),
               !.events = Append(@, Event("copy", src, Some(dst), ContentOf(st, dst),
                                          st.fs[src]))]

\* with open(path, 'w') as f: f.write(content)
Written(st, path, content) ==
    [st EXCEPT !.fs = WriteFile(st.fs, path, content),
               !.events = Append(@, Event("write", path, None, ContentOf(st, path), content))]

\* open(path, "w") and an f.write that raises: the file is left empty
Truncated(st, path) == Written(st, path, <<>>)

\* os.remove(path)
Removed(st, path) ==
    [st EXCEPT !.fs = RemoveFile(st.fs, path),
               !.events = Append(@, Event("remove", path, None, ContentOf(st, path), <<>>))]

\* ---------------------------------------------------------- backup manager
\* a create_backup that keeps a backup file that already has the name
create_backup_keep(st, path) ==
    LET backup_path == BackupPath(basename(path), st.clock)
    IN  IF exists(st, path)
        THEN [st |-> IF exists(st, backup_path) THEN st
                     ELSE Copied(st, path, backup_path),
              ret |-> Some(backup_path), raised |-> FALSE]
        ELSE [st |-> st, ret |-> None, raised |-> FALSE]

\* BackupManager.create_backup: the state after the call, the value
\* returned, and whether shutil.copy2 raised
create_backup(st, path) ==
    LET timestamp   == st.clock
        backup_path == BackupPath(basename(path), timestamp)
    IN  IF exists(st, path)
        THEN IF BACKUP_DIR \in st.dirs
             THEN [st |-> Copied(st, path, backup_path),
                   ret |-> Some(backup_path), raised |-> FALSE]
             ELSE [st |-> st, ret |-> None, raised |-> TRUE]
        ELSE [st |-> st, ret |-> None, raised |-> FALSE]

\* BackupManager.get_timestamp
get_timestamp(st) == st.clock

\* self.edit_history.append({...})
HistoryEntry(st, path, backup_path, action) ==
    [path |-> path, backup_path |-> backup_path, action |-> action,
     timestamp |-> get_timestamp(st)]

\* --------------------------------------------------------------- file tools
\* the Replace branch of FileTools.edit_file, after the backup
edit_replace(st, path, backup_path, old_text, new_text) ==
    LET content == read(st.fs[path])
    IN  IF ~Decodable(content) THEN Ret(st, "Error editing file")
        ELSE IF ~Contains(content, old_text)
        THEN Ret(st, "Text not found in file")
        ELSE IF ~Encodable(Replace(content, old_text, new_text))
        THEN Ret(Truncated(st, path), "Error editing file")
        ELSE RetPath([Written(st, path, Replace(content, old_text, new_text)) EXCEPT
                    !.edit_history = Append(st.edit_history,
                                            HistoryEntry(st, path, backup_path, "edit"))],
                 "Successfully edited", path)


\* a Create branch that records no backup
edit_create_no_backup(st, path, backup_path, new_text) ==
    RetPath([Written(st, path, new_text) EXCEPT
               !.dirs = IF dirname(path) # "" THEN st.dirs \cup {dirname(path)} ELSE st.dirs,
               !.edit_history = Append(st.edit_history,
                                       HistoryEntry(st, path, None, "create"))],
            "Successfully created", path)
\* a Create branch that records the creation as an edit
edit_create_as_edit(st, path, backup_path, new_text) ==
    RetPath([Written(st, path, new_text) EXCEPT
               !.dirs = IF dirname(path) # "" THEN st.dirs \cup {dirname(path)} ELSE st.dirs,
               !.edit_history = Append(st.edit_history,
                                       HistoryEntry(st, path, backup_path, "edit"))],
            "Successfully created", path)

\* the Create branch of FileTools.edit_file, after the backup
edit_create(st, path, backup_path, new_text) ==
    LET dir_name == dirname(path)
        made     == IF dir_name # "" THEN st.dirs \cup {dir_name} ELSE st.dirs
    IN  IF ~Encodable(new_text)
        THEN Ret([Truncated(st, path) EXCEPT !.dirs = made], "Error editing file")
        ELSE RetPath([Written(st, path, new_text) EXCEPT
               !.dirs = made,
               !.edit_history = Append(st.edit_history,
                                       HistoryEntry(st, path, backup_path, "create"))],
            "Successfully created", path)

\* an edit_file that writes the file first and takes the backup afterwards
edit_file_write_first(st, path, old_text, new_text) ==
    LET file_existed == exists(st, path)
        backup_path  == IF file_existed THEN Some(BackupPath(basename(path), st.clock))
                        ELSE None
        w == IF file_existed /\ old_text # <<>>
             THEN edit_replace(st, path, backup_path, old_text, new_text)
             ELSE edit_create(st, path, backup_path, new_text)
        b == create_backup(w, path)
    IN  [b.st EXCEPT !.result = w.result]


\* an edit_file that takes the Replace branch whenever old_text is given
edit_file_replace_on_old_text(st, path, old_text, new_text) ==
    LET b == create_backup(st, path)
    IN  IF b.raised THEN Ret(st, "Error editing file")
        ELSE IF old_text # <<>>
             THEN IF exists(b.st, path)
                  THEN edit_replace(b.st, path, b.ret, old_text, new_text)
                  ELSE Ret(b.st, "Error editing file")
             ELSE edit_create(b.st, path, b.ret, new_text)

\* FileTools.edit_file
edit_file(st, path, old_text, new_text) ==
    LET b == create_backup(st, path)
    IN  IF b.raised THEN Ret(st, "Error editing file")
        ELSE LET file_existed == exists(b.st, path)
             IN  IF file_existed /\ old_text # <<>>
                 THEN edit_replace(b.st, path, b.ret, old_text, new_text)
                 ELSE edit_create(b.st, path, b.ret, new_text)


\* a read_file that opens the file for appending and so creates a file
\* that does not exist
read_file_creating(st, path) ==
    IF ~exists(st, path) THEN Ret(Written(st, path, <<>>), "File contents of")
    ELSE IF ~Decodable(st.fs[path]) THEN Ret(st, "Error reading file")
    ELSE Ret(st, "File contents of")
\* FileTools.read_file
read_file(st, path) ==
    IF ~exists(st, path) THEN Ret(st, "File not found")
    ELSE IF ~Decodable(st.fs[path]) THEN Ret(st, "Error reading file")
    ELSE Ret(st, "File contents of")

\* ------------------------------------------------------------ history tools
\* the entry edit_history.pop() removes: the last one
PopIndexFirst(h) == 1

PopIndex(h) == Len(h)

\* the list without its i-th element
Without(h, i) == SubSeq(h, 1, i - 1) \o SubSeq(h, i + 1, Len(h))

\* a "create" branch that restores the backup of an entry that has one
undo_create_restoring(st, popped, last_edit) ==
    IF last_edit.backup_path # None /\ exists(st, last_edit.backup_path[1])
    THEN RetPath(Copied(popped, last_edit.backup_path[1], last_edit.path),
                 "Undone: Restored", last_edit.path)
    ELSE RetPath(IF exists(st, last_edit.path) THEN Removed(popped, last_edit.path)
                 ELSE popped,
                 "Undone: Removed newly created file", last_edit.path)

\* a "create" branch that removes the file without looking whether it
\* exists: os.remove raises and the handler reports it
undo_create_unguarded(st, popped, last_edit) ==
    IF exists(st, last_edit.path)
    THEN RetPath(Removed(popped, last_edit.path),
                 "Undone: Removed newly created file", last_edit.path)
    ELSE Ret(popped, "Error undoing edit")

\* the branch of undo_last_edit for action "create"
undo_create(st, popped, last_edit) ==
    LET path == last_edit.path
    IN  RetPath(IF exists(st, path) THEN Removed(popped, path) ELSE popped,
                "Undone: Removed newly created file", path)



\* an "edit" branch that puts the entry back when the backup is missing, so
\* that the undo can be tried again
undo_edit_retry(st, popped, last_edit) ==
    LET path        == last_edit.path
        backup_path == last_edit.backup_path
    IN  IF backup_path # None /\ exists(st, backup_path[1])
        THEN IF path.dir \in st.dirs
             THEN RetPath(Copied(popped, backup_path[1], path), "Undone: Restored", path)
             ELSE Ret(popped, "Error undoing edit")
        ELSE RetPath(st, "Error: Backup not found for", path)
\* an "edit" branch that deletes the backup it has restored
undo_edit_pruning(st, popped, last_edit) ==
    LET path        == last_edit.path
        backup_path == last_edit.backup_path
    IN  IF backup_path # None /\ exists(st, backup_path[1])
        THEN IF path.dir \in st.dirs
             THEN RetPath(Removed(Copied(popped, backup_path[1], path), backup_path[1]),
                          "Undone: Restored", path)
             ELSE Ret(popped, "Error undoing edit")
        ELSE RetPath(popped, "Error: Backup not found for", path)
\* an "edit" branch that copies the backup without looking whether it
\* exists: shutil.copy2 raises and the handler reports it
undo_edit_unchecked(st, popped, last_edit) ==
    IF last_edit.backup_path # None /\ exists(st, last_edit.backup_path[1])
       /\ last_edit.path.dir \in st.dirs
    THEN RetPath(Copied(popped, last_edit.backup_path[1], last_edit.path),
                 "Undone: Restored", last_edit.path)
    ELSE Ret(popped, "Error undoing edit")

\* the branch of undo_last_edit for action "edit"; shutil.copy2 raises when
\* the target's directory is gone
undo_edit(st, popped, last_edit) ==
    LET path        == last_edit.path
        backup_path == last_edit.backup_path
    IN  IF backup_path # None /\ exists(st, backup_path[1])
        THEN IF path.dir \in st.dirs
             THEN RetPath(Copied(popped, backup_path[1], path), "Undone: Restored", path)
             ELSE Ret(popped, "Error undoing edit")
        ELSE RetPath(popped, "Error: Backup not found for", path)

\* an undo_last_edit that pops without looking whether the history is
\* empty: list.pop raises and the handler reports it
undo_last_edit_unguarded(st) ==
    IF st.edit_history = <<>> THEN Ret(st, "Error undoing edit")
    ELSE LET i         == PopIndex(st.edit_history)
             last_edit == st.edit_history[i]
             popped    == [st EXCEPT !.edit_history = Without(st.edit_history, i)]
         IN  IF last_edit.action = "create" THEN undo_create(st, popped, last_edit)
             ELSE undo_edit(st, popped, last_edit)

\* HistoryTools.undo_last_edit
undo_last_edit(st) ==
    IF st.edit_history = <<>> THEN Ret(st, "No edits to undo")
    ELSE LET i         == PopIndex(st.edit_history)
             last_edit == st.edit_history[i]
             action    == last_edit.action
             popped    == [st EXCEPT !.edit_history = Without(st.edit_history, i)]
         IN  IF action = "create" THEN undo_create(st, popped, last_edit)
             ELSE undo_edit(st, popped, last_edit)

\* ------------------------------------------------------------- search tools
Reverse(q) == [i \in 1..Len(q) |-> q[Len(q) + 1 - i]]

\* os.listdir order is arbitrary: ascending, or descending when rev
Listing(q, rev) == IF rev THEN Reverse(q) ELSE q

\* the file names a directory may hold, and the subdirectories of "."
DirFiles(d) ==
    CASE d = "."    -> <<HiddenFile, UserPath(".", "a.txt"), UserPath(".", "b.py"), BinaryFile>>
      [] d = "sub"  -> <<UserPath("sub", "a.txt")>>
      [] d = "new"  -> <<UserPath("new", "n.txt")>>
      [] d = ".git" -> <<InHiddenDir>>
      [] OTHER      -> <<>>

SubDirs(d) == IF d = "." THEN <<".git", BACKUP_DIR, "new", "sub">> ELSE <<>>

RECURSIVE Flatten(_)
Flatten(qq) == IF qq = <<>> THEN <<>> ELSE Head(qq) \o Flatten(Tail(qq))

\* the names the backup files may have, and the files a directory holds
BackupNames ==
    LET bases == <<"a.txt", "b.py", "n.txt">>
    IN  Flatten([i \in 1..Len(bases) |->
                   [t \in 1..(MaxClock + 2) |-> BackupPath(bases[i], t - 1)]])

FilesIn(d) == IF d = BACKUP_DIR THEN BackupNames ELSE DirFiles(d)

\* the files of one walked directory that reach the per-file body of the
\* loop: none when BACKUP_DIR is in the directory's path, else those that
\* exist, are not hidden and pass the file_pattern filter
WalkedFiles(st, top, d, file_pattern, rev) ==
    IF BackupDirInRoot(top, d) \/ d \notin st.dirs THEN <<>>
    ELSE LET keep(f) == /\ f \in DOMAIN st.fs
                        /\ ~StartsWithDot(f.base)
                        /\ (file_pattern # None => fnmatch(f.base, file_pattern[1]))
         IN  SelectSeq(Listing(FilesIn(d), rev), keep)

\* for root, dirs, files in os.walk(path): the files the loop body handles,
\* in order; hidden subdirectories are pruned before they are walked
Walk(st, top, file_pattern, rev) ==
    LET notHidden(d) == ~StartsWithDot(d)
        below == SelectSeq(Listing(SubDirs(top), rev), notHidden)
    IN  WalkedFiles(st, top, top, file_pattern, rev)
        \o Flatten([i \in 1..Len(below) |->
                      WalkedFiles(st, top, below[i], file_pattern, rev)])

\* sre_parse.parse_template on the replacement text, from index i: "\\"
\* followed by "\\" is one backslash; a backslash followed by "1" (a group
\* reference, and the pattern has no group), by one of the letters x, X, y
\* (ASCII letters that are no escape) or by nothing raises re.error; a
\* backslash followed by a character that is no letter or digit stays
RECURSIVE parse_template(_, _)
parse_template(t, i) ==
    IF i > Len(t) THEN [raised |-> FALSE, text |-> <<>>]
    ELSE IF t[i] # "\\"
         THEN LET r == parse_template(t, i + 1)
              IN  [raised |-> r.raised, text |-> <<t[i]>> \o r.text]
         ELSE IF i = Len(t) \/ t[i + 1] \in {"x", "X", "y", "1"}
              THEN [raised |-> TRUE, text |-> <<>>]
              ELSE LET r == parse_template(t, i + 2)
                   IN  [raised |-> r.raised,
                        text |-> (IF t[i + 1] = "\\" THEN <<"\\">> ELSE <<"\\", t[i + 1]>>)
                                 \o r.text]

\* matches of re.compile(re.escape(old), re.IGNORECASE) replaced by repl
RECURSIVE SubFrom(_, _, _, _)
SubFrom(s, old, repl, i) ==
    IF i > Len(s) THEN (IF old = <<>> THEN repl ELSE <<>>)
    ELSE IF old = <<>> THEN repl \o <<s[i]>> \o SubFrom(s, old, repl, i + 1)
    ELSE IF MatchAt(Lower(s), Lower(old), i) THEN repl \o SubFrom(s, old, repl, i + Len(old))
    ELSE <<s[i]>> \o SubFrom(s, old, repl, i + 1)

\* pattern.sub(new_text, content)
re_sub(old_text, new_text, content) ==
    LET t == parse_template(new_text, 1)
    IN  [raised |-> t.raised, text |-> SubFrom(content, old_text, t.text, 1)]

\* the clock during a batch: it advances by one second once tickAfter
\* files have been visited (0: it does not advance)
BatchClock(clock0, visited, tickAfter) ==
    IF tickAfter > 0 /\ visited >= tickAfter THEN clock0 + 1 ELSE clock0

\* a batch editor that edits whatever dry_run says
dry_run_ignored(a) == FALSE

\* `if not dry_run:` before the backup, the write and the history entry
dry_run(a) == a.dry_run

\* the body of multi_file_edit's loop for files[i..]: acc carries the state,
\* files_with_matches, files_modified, total_replacements and whether an
\* exception left the loop
RECURSIVE multi_loop(_, _, _, _, _)
multi_loop(acc, files, i, a, env) ==
    IF i > Len(files) \/ acc.raised THEN acc
    ELSE
    LET filepath == files[i]
        st0      == [acc.st EXCEPT !.clock = BatchClock(env.clock0, i - 1, env.tickAfter)]
        content  == read(st0.fs[filepath])
        cand     == IF a.case_sensitive THEN Contains(content, a.old_text)
                    ELSE Contains(Lower(content), Lower(a.old_text))
        count    == IF a.case_sensitive THEN Count(content, a.old_text)
                    ELSE Count(Lower(content), Lower(a.old_text))
        seen     == [acc EXCEPT !.st = st0,
                                !.files_with_matches = Append(@, <<filepath, count>>)]
    IN  IF ~Decodable(content) \/ ~cand
        THEN multi_loop([acc EXCEPT !.st = st0], files, i + 1, a, env)
        ELSE IF dry_run(a)
        THEN multi_loop([seen EXCEPT !.total_replacements = @ + count], files, i + 1, a, env)
        ELSE
        LET b  == create_backup(st0, filepath)
            nc == IF a.case_sensitive
                  THEN [raised |-> FALSE, text |-> Replace(content, a.old_text, a.new_text)]
                  ELSE re_sub(a.old_text, a.new_text, content)
        IN  IF b.raised THEN [seen EXCEPT !.raised = TRUE]
            ELSE IF nc.raised THEN [seen EXCEPT !.st = b.st, !.raised = TRUE]
            ELSE IF ~Encodable(nc.text)
            THEN [seen EXCEPT !.st = Truncated(b.st, filepath), !.raised = TRUE]
            ELSE multi_loop(
                   [seen EXCEPT
                      !.st = [Written(b.st, filepath, nc.text) EXCEPT
                                !.edit_history =
                                    Append(b.st.edit_history,
                                           [path |-> filepath, backup_path |-> b.ret,
                                            action |-> "edit",
                                            timestamp |-> get_timestamp(b.st),
                                            multi_file |-> TRUE])],
                      !.files_modified = Append(@, filepath),
                      !.total_replacements = @ + count],
                   files, i + 1, a, env)

\* SearchTools.multi_file_edit; a holds the arguments, env the listing order
\* and the passing of time during the call
multi_file_edit(st, a, env) ==
    IF a.path \notin st.dirs THEN Ret(st, "Path not found")
    ELSE
    LET files == Walk(st, a.path, a.file_pattern, env.rev)
        acc0  == [st |-> st, files_with_matches |-> <<>>, files_modified |-> <<>>,
                  total_replacements |-> 0, raised |-> FALSE]
        acc   == multi_loop(acc0, files, 1, a,
                            [tickAfter |-> env.tickAfter, clock0 |-> st.clock])
        end   == [acc.st EXCEPT !.clock = BatchClock(st.clock, Len(files), env.tickAfter)]
    IN  IF acc.raised THEN Ret(end, "Error in multi-file edit")
        ELSE IF acc.files_with_matches = <<>> THEN Ret(end, "No files found containing")
        ELSE IF a.dry_run
        THEN [end EXCEPT !.result =
                Result("DRY RUN - Would modify", "", None, acc.files_with_matches,
                       <<Len(acc.files_with_matches), acc.total_replacements>>)]
        ELSE [end EXCEPT !.result =
                Result("Successfully modified", "", None,
                       [k \in 1..Len(acc.files_modified) |-> <<acc.files_modified[k]>>],
                       <<Len(acc.files_modified), acc.total_replacements>>)]

\* str.splitlines(keepends=True) as readlines() does it, from index i with
\* the current line cur
RECURSIVE LinesFrom(_, _, _)
LinesFrom(s, i, cur) ==
    IF i > Len(s) THEN (IF cur = <<>> THEN <<>> ELSE <<cur>>)
    ELSE IF s[i] = "\n" THEN <<Append(cur, "\n")>> \o LinesFrom(s, i + 1, <<>>)
    ELSE LinesFrom(s, i + 1, Append(cur, s[i]))

\* f.readlines()
readlines(content) == LinesFrom(read(content), 1, <<>>)

\* re.compile(pattern) for a pattern over the modelled characters, from
\* index i: a backslash escapes a backslash or a newline, and a backslash
\* before x, X, y, "1" (with no group) or before nothing raises re.error.
\* The compiled pattern is the literal text it matches.
RECURSIVE re_compile(_, _)
re_compile(t, i) ==
    IF i > Len(t) THEN [raised |-> FALSE, text |-> <<>>]
    ELSE IF t[i] # "\\"
         THEN LET r == re_compile(t, i + 1)
              IN  [raised |-> r.raised, text |-> <<t[i]>> \o r.text]
         ELSE IF i = Len(t) \/ t[i + 1] \in {"x", "X", "y", "1"}
              THEN [raised |-> TRUE, text |-> <<>>]
              ELSE LET r == re_compile(t, i + 2)
                   IN  [raised |-> r.raised, text |-> <<t[i + 1]>> \o r.text]

\* line.rstrip() for the whitespace the modelled texts hold
RECURSIVE rstrip(_)
rstrip(line) ==
    IF line # <<>> /\ line[Len(line)] \in {"\n", " "}
    THEN rstrip(SubSeq(line, 1, Len(line) - 1)) ELSE line

\* whether one line matches, by regex.search or by the substring test
LineMatches(line, a, regex) ==
    IF a.use_regex
    THEN IF a.case_sensitive THEN Contains(line, regex)
         ELSE Contains(Lower(line), Lower(regex))
    ELSE LET search_pattern == IF a.case_sensitive THEN a.pattern ELSE Lower(a.pattern)
             search_line    == IF a.case_sensitive THEN line ELSE Lower(line)
         IN  Contains(search_line, search_pattern)

\* file_matches of one file: (line_num, line.rstrip()) of its matching lines
FileMatches(content, a, regex) ==
    LET lines == readlines(content)
        nums  == SelectSeq([k \in 1..Len(lines) |-> k],
                           LAMBDA k : LineMatches(lines[k], a, regex))
    IN  [k \in 1..Len(nums) |-> <<nums[k], rstrip(lines[nums[k]])>>]

\* matches shown per file: result['matches'][:5]
MaxShown == 5

\* the body of search_files's loop for files[i..]
RECURSIVE search_loop(_, _, _, _, _, _)
search_loop(acc, st, files, i, a, regex) ==
    IF i > Len(files) THEN acc
    ELSE LET content == st.fs[files[i]]
             file_matches == FileMatches(content, a, regex)
         IN  IF ~Decodable(content) THEN search_loop(acc, st, files, i + 1, a, regex)
             ELSE search_loop(
                    [results |-> IF file_matches # <<>>
                                 THEN Append(acc.results,
                                             [file |-> files[i], matches |-> file_matches])
                                 ELSE acc.results,
                     total_matches |-> acc.total_matches + Len(file_matches),
                     files_searched |-> acc.files_searched + 1],
                    st, files, i + 1, a, regex)

\* a report that shows every matching line of a file
ShownMatches_all(r) == [file |-> r.file, shown |-> r.matches, more |-> 0]

\* the lines of the report for one file with matches
ShownMatches(r) ==
    [file |-> r.file,
     shown |-> SubSeq(r.matches, 1, IF Len(r.matches) > MaxShown THEN MaxShown
                                    ELSE Len(r.matches)),
     more |-> IF Len(r.matches) > MaxShown THEN Len(r.matches) - MaxShown ELSE 0]

\* SearchTools.search_files
search_files(st, a, env) ==
    IF a.path \notin st.dirs THEN Ret(st, "Path not found")
    ELSE
    LET c == IF a.use_regex THEN re_compile(a.pattern, 1)
             ELSE [raised |-> FALSE, text |-> a.pattern]
        acc == search_loop([results |-> <<>>, total_matches |-> 0, files_searched |-> 0],
                           st, Walk(st, a.path, a.file_pattern, env.rev), 1, a, c.text)
    IN  IF c.raised THEN Ret(st, "Invalid regex pattern")
        ELSE IF acc.results = <<>>
        THEN [st EXCEPT !.result = Result("No matches found for", "", None, <<>>,
                                          <<acc.files_searched>>)]
        ELSE [st EXCEPT !.result =
                Result("Found", "", None,
                       [k \in 1..Len(acc.results) |-> ShownMatches(acc.results[k])],
                       <<acc.total_matches, Len(acc.results), acc.files_searched>>)]

\* FileTools.list_files: the directory's children, sorted by name; the
\* names of the backup files are not listed in the modelled report
ListOrder(d) ==
    IF d = "." THEN <<".env", ".git", BACKUP_DIR, "a.txt", "b.py", "d.bin", "new", "sub">>
    ELSE [k \in 1..Len(DirFiles(d)) |-> DirFiles(d)[k].base]

list_files(st, path) ==
    IF path \notin st.dirs THEN Ret(st, "Path not found")
    ELSE LET isDir(n)  == path = "." /\ n \in st.dirs \ {"."}
             isFile(n) == UserPath(path, n) \in DOMAIN st.fs
             names == SelectSeq(ListOrder(path), LAMBDA n : isDir(n) \/ isFile(n))
             items == [k \in 1..Len(names) |->
                         <<IF isDir(names[k]) THEN "[DIR]" ELSE "[FILE]", names[k]>>]
         IN  IF path = BACKUP_DIR
             THEN IF \E f \in DOMAIN st.fs : f.dir = BACKUP_DIR
                  THEN Ret(st, "Contents of") ELSE Ret(st, "Empty directory")
             ELSE IF items = <<>> THEN Ret(st, "Empty directory")
             ELSE [st EXCEPT !.result = Result("Contents of", "", None, items, <<>>)]

\* --------------------------------------------------------------- validators
\* \s and \w of the re module, on the modelled characters
IsSpace(c) == c \in {" ", "\n"}

IsWord(s, i) == i >= 1 /\ i <= Len(s) /\ s[i] \in WordChars

\* whether the pattern elements pat[j..] match s from index i on.  An
\* element is "\\b", "\\s+", "\\s*" or a character, which matches itself
\* whatever its case (re.IGNORECASE)
RECURSIVE ReMatch(_, _, _, _)
ReMatch(pat, j, s, i) ==
    IF j > Len(pat) THEN TRUE
    ELSE CASE pat[j] = "\\b"  -> IsWord(s, i - 1) # IsWord(s, i) /\ ReMatch(pat, j + 1, s, i)
           [] pat[j] = "\\s+" -> /\ i <= Len(s) /\ IsSpace(s[i])
                                 /\ (ReMatch(pat, j + 1, s, i + 1) \/ ReMatch(pat, j, s, i + 1))
           [] pat[j] = "\\s*" -> \/ ReMatch(pat, j + 1, s, i)
                                 \/ (i <= Len(s) /\ IsSpace(s[i]) /\ ReMatch(pat, j, s, i + 1))
           [] OTHER           -> /\ i <= Len(s) /\ LowerChar(s[i]) = LowerChar(pat[j])
                                 /\ ReMatch(pat, j + 1, s, i + 1)

\* re.search(pattern, command, re.IGNORECASE)
re_search(pat, s) == \E i \in 1..(Len(s) + 1) : ReMatch(pat, 1, s, i)


\* a denylist without the pattern for writing to disk devices
dangerous_patterns_four ==
    << <<"\\b", "r", "m", "\\s+", "-", "r", "f", "\\s+", "/">>,
       <<"\\b", "f", "o", "r", "m", "a", "t", "\\b">>,
       <<"\\b", "m", "k", "f", "s", "\\b">>,
       <<"\\b", "d", "d", "\\s+", "i", "f", "=">> >>
dangerous_patterns ==
    << <<"\\b", "r", "m", "\\s+", "-", "r", "f", "\\s+", "/">>,
       <<"\\b", "f", "o", "r", "m", "a", "t", "\\b">>,
       <<"\\b", "m", "k", "f", "s", "\\b">>,
       <<"\\b", "d", "d", "\\s+", "i", "f", "=">>,
       <<">", "\\s*", "/", "d", "e", "v", "/", "s", "d">> >>

\* validators.is_command_safe
is_command_safe(command) ==
    \A k \in 1..Len(dangerous_patterns) : ~re_search(dangerous_patterns[k], command)

\* the commands a call may give
CmdRmRoot == <<"r", "m", " ", "-", "r", "f", " ", "/">>
CmdRmRootUpper == <<"R", "M", " ", " ", "-", "R", "F", " ", "/", "x">>
CmdLs == <<"l", "s", " ", "-", "l", "a">>
CmdXrm == <<"x", "r", "m", " ", "-", "r", "f", " ", "/">>
CmdRmLocal == <<"r", "m", " ", "-", "r", "f", " ", "x">>
CmdReformat == <<"r", "e", "f", "o", "r", "m", "a", "t">>
CmdFormat == <<"f", "o", "r", "m", "a", "t", " ", "c">>
CmdMkfs == <<"m", "k", "f", "s", ".", "x">>
CmdDd == <<"d", "d", " ", "i", "f", "=", "x">>
CmdAdd == <<"a", "d", "d", " ", "i", "f", "=", "x">>
CmdDev == <<"l", "s", " ", ">", "/", "d", "e", "v", "/", "s", "d", "a">>
CmdPipe == <<"l", "s", " ", "|", " ", "c", "a", "t", ";", " ", "l", "s">>

Commands == {CmdRmRoot, CmdRmRootUpper, CmdLs, CmdXrm, CmdRmLocal, CmdReformat, CmdFormat, CmdMkfs, CmdDd, CmdAdd, CmdDev, CmdPipe}

\* ------------------------------------------------------------- system tools
DEFAULT_TIMEOUT == 30

\* what is left of a command's processes when the timeout expires:
\* subprocess.run kills the process it started, the shell, and waits for
\* it; processes the shell started are not signalled
kill_on_timeout(st, command, proc) ==
    IF proc.children THEN [st EXCEPT !.running = @ \cup {command}] ELSE st

\* a run_command that joins the output parts it has, also when it has none
run_subprocess_bare(st, a, env) ==
    LET ran == [st EXCEPT !.spawned = @ \cup {a.command}]
        output_parts ==
            (IF env.proc.stdout THEN <<"Output">> ELSE <<>>)
            \o (IF env.proc.stderr THEN <<"Errors">> ELSE <<>>)
            \o (IF env.proc.returncode # 0 THEN <<"Exit code">> ELSE <<>>)
    IN  [ran EXCEPT !.result =
            Result(IF output_parts = <<>> THEN "" ELSE output_parts[1], "", None,
                   output_parts, <<>>)]

\* what subprocess.run and the formatting of its result give
run_subprocess(st, a, env) ==
    LET ran == [st EXCEPT !.spawned = @ \cup {a.command}]
        output_parts ==
            (IF env.proc.stdout THEN <<"Output">> ELSE <<>>)
            \o (IF env.proc.stderr THEN <<"Errors">> ELSE <<>>)
            \o (IF env.proc.returncode # 0 THEN <<"Exit code">> ELSE <<>>)
    IN  IF env.proc.timed_out
        THEN [kill_on_timeout(ran, a.command, env.proc) EXCEPT !.result =
                Result("Command timed out after", "", None, <<>>, <<a.timeout>>)]
        ELSE [ran EXCEPT !.result =
                Result(IF output_parts = <<>>
                       THEN "Command completed successfully with no output"
                       ELSE output_parts[1], "", None, output_parts, <<>>)]

\* a run_command that runs the command before it looks at it
run_command_unchecked(st, a, env) ==
    IF a.working_directory \notin st.dirs THEN Ret(st, "Working directory not found")
    ELSE LET ran == run_subprocess(st, a, env)
         IN  IF ~is_command_safe(a.command)
             THEN [ran EXCEPT !.result = Msg("Command blocked for safety reasons")]
             ELSE ran

\* SystemTools.run_command; env.proc is what the subprocess does: whether
\* it outlives the timeout, and else its stdout, stderr and return code
run_command(st, a, env) ==
    IF a.working_directory \notin st.dirs THEN Ret(st, "Working directory not found")
    ELSE IF ~is_command_safe(a.command) THEN Ret(st, "Command blocked for safety reasons")
    ELSE run_subprocess(st, a, env)

\* --------------------------------------------------------------- dispatcher
\* tool_input.get(key, default)
Get(tool_input, key, default) ==
    IF key \in DOMAIN tool_input THEN tool_input[key] ELSE default

\* tool_input[key] raises KeyError when the key is absent
Missing(tool_input, keys) == \E k \in keys : k \notin DOMAIN tool_input

\* the keys each branch of _execute_tool reads with tool_input[...]
Indexed(tool_name) ==
    CASE tool_name = "read_file"       -> {"path"}
      [] tool_name = "edit_file"       -> {"path", "new_text"}
      [] tool_name = "search_files"    -> {"pattern"}
      [] tool_name = "multi_file_edit" -> {"old_text", "new_text"}
      [] tool_name = "run_command"     -> {"command"}
      [] OTHER                         -> {}

\* a dispatcher that lets the KeyError of an absent field escape
NoCatch(st, tool_name) == [st EXCEPT !.result = Result("RAISED", tool_name, None, <<>>, <<>>)]

\* `except Exception as e: return f"Error executing {tool_name}: ..."`
ErrorExecuting(st, tool_name) ==
    [st EXCEPT !.result = Result("Error executing", tool_name, None, <<>>, <<>>)]

\* a dispatcher that reads new_text with tool_input.get("new_text", "")
execute_tool_lenient(st, tool_name, tool_input, env) ==
    IF Missing(tool_input, Indexed(tool_name) \ {"new_text"}) THEN ErrorExecuting(st, tool_name)
    ELSE CASE tool_name = "read_file" -> read_file(st, tool_input["path"])
           [] tool_name = "list_files" -> list_files(st, Get(tool_input, "path", "."))
           [] tool_name = "edit_file" ->
                edit_file(st, tool_input["path"], Get(tool_input, "old_text", <<>>),
                          Get(tool_input, "new_text", <<>>))
           [] tool_name = "search_files" ->
                search_files(st, [pattern |-> tool_input["pattern"],
                                  path |-> Get(tool_input, "path", "."),
                                  file_pattern |-> Get(tool_input, "file_pattern", None),
                                  case_sensitive |-> Get(tool_input, "case_sensitive", FALSE),
                                  use_regex |-> Get(tool_input, "use_regex", FALSE)], env)
           [] tool_name = "multi_file_edit" ->
                multi_file_edit(st, [old_text |-> tool_input["old_text"],
                                     new_text |-> Get(tool_input, "new_text", <<>>),
                                     path |-> Get(tool_input, "path", "."),
                                     file_pattern |-> Get(tool_input, "file_pattern", None),
                                     case_sensitive |-> Get(tool_input, "case_sensitive", TRUE),
                                     dry_run |-> Get(tool_input, "dry_run", FALSE)], env)
           [] tool_name = "run_command" ->
                run_command(st, [command |-> tool_input["command"],
                                 working_directory |-> Get(tool_input, "working_directory", "."),
                                 timeout |-> Get(tool_input, "timeout", DEFAULT_TIMEOUT)], env)
           [] tool_name = "undo_last_edit" -> undo_last_edit(st)
           [] OTHER -> [st EXCEPT !.result = Result("Unknown tool", tool_name, None, <<>>, <<>>)]

\* AIAgent._execute_tool
execute_tool(st, tool_name, tool_input, env) ==
    IF Missing(tool_input, Indexed(tool_name)) THEN ErrorExecuting(st, tool_name)
    ELSE CASE tool_name = "read_file" -> read_file(st, tool_input["path"])
           [] tool_name = "list_files" -> list_files(st, Get(tool_input, "path", "."))
           [] tool_name = "edit_file" ->
                edit_file(st, tool_input["path"], Get(tool_input, "old_text", <<>>),
                          tool_input["new_text"])
           [] tool_name = "search_files" ->
                search_files(st, [pattern |-> tool_input["pattern"],
                                  path |-> Get(tool_input, "path", "."),
                                  file_pattern |-> Get(tool_input, "file_pattern", None),
                                  case_sensitive |-> Get(tool_input, "case_sensitive", FALSE),
                                  use_regex |-> Get(tool_input, "use_regex", FALSE)], env)
           [] tool_name = "multi_file_edit" ->
                multi_file_edit(st, [old_text |-> tool_input["old_text"],
                                     new_text |-> tool_input["new_text"],
                                     path |-> Get(tool_input, "path", "."),
                                     file_pattern |-> Get(tool_input, "file_pattern", None),
                                     case_sensitive |-> Get(tool_input, "case_sensitive", TRUE),
                                     dry_run |-> Get(tool_input, "dry_run", FALSE)], env)
           [] tool_name = "run_command" ->
                run_command(st, [command |-> tool_input["command"],
                                 working_directory |-> Get(tool_input, "working_directory", "."),
                                 timeout |-> Get(tool_input, "timeout", DEFAULT_TIMEOUT)], env)
           [] tool_name = "undo_last_edit" -> undo_last_edit(st)
           [] OTHER -> [st EXCEPT !.result = Result("Unknown tool", tool_name, None, <<>>, <<>>)]

\* ------------------------------------------------------------------ actions
\* what the environment decides during a call: the order os.listdir gives,
\* when the clock advances during a batch, what a subprocess does
NoProc == [timed_out |-> FALSE, stdout |-> FALSE, stderr |-> FALSE, returncode |-> 0,
           children |-> FALSE]
NoEnv == [rev |-> FALSE, tickAfter |-> 0, proc |-> NoProc]

\* the files a successful call reports as mutated, in order
Mutated(call, res) ==
    CASE call.name = "edit_file"
         /\ res.msg \in {"Successfully edited", "Successfully created"} -> res.target
      [] call.name = "multi_file_edit" /\ res.msg = "Successfully modified" ->
            [k \in 1..Len(res.report) |-> res.report[k][1]]
      [] OTHER -> <<>>

\* what an undo_last_edit call reports to have acted on
Undone(res) == <<[target |-> res.target, msg |-> res.msg]>>

NextPhase(call, res) ==
    CASE Mutated(call, res) # <<>> -> IF phase = "mut" THEN "mut" ELSE "other"
      [] call.name = "undo_last_edit" ->
            IF phase \in {"mut", "undo"} /\ Len(undoLog) <= Len(mutLog)
            THEN "undo" ELSE "other"
      [] OTHER -> "other"

NoEdit == [stage |-> "none", path |-> UserPath("", ""), before |-> None, msg |-> "",
           command |-> <<>>, working_directory |-> "", input |-> <<>>, proc |-> NoProc]

\* what the last call was: an edit_file (with the target's content before
\* it), the undo_last_edit after one, a multi_file_edit with dry_run, a
\* run_command (with its command and working directory), a search_files
\* (with its input)
NextLastEdit(call, res, env) ==
    CASE call.name = "run_command" /\ ~Missing(call.input, Indexed("run_command")) ->
            [NoEdit EXCEPT !.stage = "run", !.msg = res.msg, !.proc = env.proc,
                           !.command = call.input["command"],
                           !.working_directory =
                               Get(call.input, "working_directory", ".")]
      [] call.name = "multi_file_edit" /\ ~Missing(call.input, Indexed("multi_file_edit"))
         /\ Get(call.input, "dry_run", FALSE) ->
            [NoEdit EXCEPT !.stage = "dry_run", !.msg = res.msg]
      [] call.name = "edit_file" /\ ~Missing(call.input, Indexed("edit_file")) ->
            [NoEdit EXCEPT !.stage = "edited", !.path = call.input["path"],
                           !.input = call.input,
                           !.before = IF call.input["path"] \in DOMAIN fs
                                      THEN Some(fs[call.input["path"]]) ELSE None,
                           !.msg = res.msg]
      [] call.name = "search_files" /\ ~Missing(call.input, Indexed("search_files")) ->
            [NoEdit EXCEPT !.stage = "search", !.msg = res.msg, !.input = call.input]
      [] call.name = "undo_last_edit" /\ lastEdit.stage = "edited" ->
            [lastEdit EXCEPT !.stage = "undone"]
      [] OTHER -> NoEdit

NoBatch == [pre |-> <<>>, files |-> <<>>, undone |-> 0]

\* a multi_file_edit that modified files starts a batch record, each
\* undo_last_edit up to the number of its files counts, any other call ends it
NextLastBatch(call, res) ==
    CASE call.name = "multi_file_edit" /\ res.msg = "Successfully modified" ->
            [pre |-> fs, files |-> Mutated(call, res), undone |-> 0]
      [] call.name = "undo_last_edit" /\ lastBatch.undone < Len(lastBatch.files) ->
            [lastBatch EXCEPT !.undone = @ + 1]
      [] OTHER -> NoBatch

NoCall == [name |-> "", fields |-> {}, missing |-> FALSE, changed |-> {}, pushed |-> <<>>, popped |-> 0,
           kept |-> TRUE, dirs |-> {}, spawned |-> {}]

\* the length of the longest common prefix of two lists
RECURSIVE CommonPrefix(_, _)
CommonPrefix(g, h) ==
    IF g # <<>> /\ h # <<>> /\ Head(g) = Head(h)
    THEN 1 + CommonPrefix(Tail(g), Tail(h)) ELSE 0

\* what a call did, st being the state after it: the files that it created,
\* removed or left with another content, the history entries it appended
\* and the number it removed, whether the entries below are as they were,
\* the directories it made and the commands it started
NextLastCall(call, st) ==
    LET n == CommonPrefix(edit_history, st.edit_history)
    IN  [name    |-> call.name,
         fields  |-> DOMAIN call.input,
         missing |-> Missing(call.input, Indexed(call.name)),
         changed |-> {p \in (DOMAIN fs) \cup (DOMAIN st.fs) :
                        \/ (p \in DOMAIN fs) # (p \in DOMAIN st.fs)
                        \/ (p \in DOMAIN fs /\ fs[p] # st.fs[p])},
         pushed  |-> SubSeq(st.edit_history, n + 1, Len(st.edit_history)),
         popped  |-> Len(edit_history) - n,
         kept    |-> n >= Len(edit_history) - 1,
         dirs    |-> st.dirs \ dirs,
         spawned |-> st.spawned \ spawned]

NoSeries == [pre |-> <<>>, files |-> {}, edits |-> 0, undone |-> 0]

\* a successful Replace-branch edit starts a series or extends the one that
\* no undo has followed yet; each undo_last_edit up to the number of its
\* edits counts; any other call ends it
NextSeries(call, res) ==
    CASE call.name = "edit_file" /\ res.msg = "Successfully edited" ->
            IF series.edits > 0 /\ series.undone = 0
            THEN [series EXCEPT !.edits = @ + 1, !.files = @ \cup {res.target[1]}]
            ELSE [pre |-> fs, files |-> {res.target[1]}, edits |-> 1, undone |-> 0]
      [] call.name = "undo_last_edit" /\ series.undone < series.edits ->
            [series EXCEPT !.undone = @ + 1]
      [] OTHER -> NoSeries

\* what a call adds to the number of mutations: the history entries it
\* pushed, or one for a call that wrote a file and pushed none
Mutations(call, st) ==
    IF Len(st.edit_history) > Len(edit_history)
    THEN Len(st.edit_history) - Len(edit_history)
    ELSE IF call.name # "undo_last_edit" /\ st.fs # fs THEN 1 ELSE 0

\* the effect of _execute_tool(call.name, call.input) on the variables
Apply(call, env) ==
    \E st \in {execute_tool(State, call.name, call.input, env)} :
    \E ph \in {NextPhase(call, st.result)} :
        /\ nmut + Mutations(call, st) <= MaxMut
        /\ st.clock <= MaxClock
        /\ Cardinality(st.spawned) <= MaxSpawned
        /\ fs' = st.fs
        /\ dirs' = st.dirs
        /\ edit_history' = st.edit_history
        /\ clock' = st.clock
        /\ spawned' = st.spawned
        /\ result' = st.result
        /\ lastEdit' = NextLastEdit(call, st.result, env)
        /\ nmut' = nmut + Mutations(call, st)
        /\ phase' = ph
        /\ mutLog' = IF ph = "other" THEN <<>> ELSE mutLog \o Mutated(call, st.result)
        /\ undoLog' = IF ph = "undo" THEN undoLog \o Undone(st.result) ELSE <<>>
        /\ events' = st.events
        /\ running' = st.running
        /\ lastBatch' = NextLastBatch(call, st.result)
        /\ lastCall' = NextLastCall(call, st)
        /\ series' = NextSeries(call, st.result)

Call(n, i) == [name |-> n, input |-> i]

\* the input of a call that gives no field: {}
NoInput == <<>>

OldTexts == {<<>>, <<"x">>, <<"x", "\n">>}
NewTexts == {<<"y">>, <<"x", "x">>}

\* the model asks for edit_file, with or without old_text
EditFile ==
    \E p \in Paths, o \in OldTexts, n \in NewTexts :
        /\ p = UserPath(".", "a.txt") \/ n = <<"y">>
        /\ o = <<"x", "\n">> => p = UserPath("sub", "a.txt")
        /\ Apply(Call("edit_file", [path |-> p, old_text |-> o, new_text |-> n]), NoEnv)
        /\ UNCHANGED chatVars

\* the model asks for edit_file and leaves old_text out
EditFileNoOld ==
    \E p \in {UserPath(".", "a.txt"), UserPath("new", "n.txt")} :
        /\ Apply(Call("edit_file", [path |-> p, new_text |-> <<"y">>]), NoEnv)
        /\ UNCHANGED chatVars

\* the model asks for undo_last_edit
UndoLastEdit ==
    /\ Apply(Call("undo_last_edit", NoInput), NoEnv)
    /\ UNCHANGED chatVars

\* the arguments of the multi_file_edit calls, and what the environment
\* may do during one
BatchPatterns == {None, Some("*.txt")}
BatchEnvs == {NoEnv, [NoEnv EXCEPT !.rev = TRUE], [NoEnv EXCEPT !.tickAfter = 1]}

\* new_text, path and case_sensitive of the calls: a replacement text with
\* a backslash goes with the case-insensitive branch, which reads it as a
\* template
BatchArgs ==
    {[new_text |-> <<"y">>, path |-> ".", case_sensitive |-> TRUE],
     [new_text |-> <<"y">>, path |-> ".", case_sensitive |-> FALSE],
     [new_text |-> <<"\\">>, path |-> ".", case_sensitive |-> FALSE],
     [new_text |-> <<"\\", "\\">>, path |-> "sub", case_sensitive |-> FALSE],
     [new_text |-> <<"y">>, path |-> "sub", case_sensitive |-> TRUE],
     [new_text |-> <<"y">>, path |-> "nodir", case_sensitive |-> TRUE]}

MultiCall(n, root, fp, cs, dr) ==
    Call("multi_file_edit", [old_text |-> <<"x">>, new_text |-> n, path |-> root,
                             file_pattern |-> fp, case_sensitive |-> cs, dry_run |-> dr])

\* the model asks for multi_file_edit with dry_run = false
MultiFileEdit ==
    \E b \in BatchArgs, fp \in BatchPatterns, env \in BatchEnvs :
        /\ env.tickAfter > 0 => clock < MaxClock
        /\ b.path # "." => (fp = None /\ env = NoEnv)
        /\ Apply(MultiCall(b.new_text, b.path, fp, b.case_sensitive, FALSE), env)
        /\ UNCHANGED chatVars

\* the model asks for multi_file_edit with dry_run = true
MultiFileEditDryRun ==
    \E b \in BatchArgs, fp \in BatchPatterns, env \in BatchEnvs :
        /\ env.tickAfter > 0 => clock < MaxClock
        /\ b.path # "." => (fp = None /\ env = NoEnv)
        /\ Apply(MultiCall(b.new_text, b.path, fp, b.case_sensitive, TRUE), env)
        /\ UNCHANGED chatVars

\* the model asks for multi_file_edit and gives only the required fields
MultiFileEditDefaults ==
    /\ Apply(Call("multi_file_edit", [old_text |-> <<"x">>, new_text |-> <<"y">>]), NoEnv)
    /\ UNCHANGED chatVars

\* the model asks for edit_file between batches
BatchEditFile ==
    \E p \in {UserPath(".", "a.txt"), UserPath("new", "n.txt")} :
        /\ Apply(Call("edit_file", [path |-> p, old_text |-> <<"x">>, new_text |-> <<"y">>]),
                 NoEnv)
        /\ UNCHANGED chatVars

\* the arguments of the search_files calls: every combination in ".", the
\* plain case-sensitive search in the other directories
SearchPatterns == {<<"x">>, <<"x", "y">>, <<"\\">>}
SearchRoots == {".", "new", ".git", BACKUP_DIR, "nodir"}

SearchCall(pt, root, fp, cs, re) ==
    Call("search_files", [pattern |-> pt, path |-> root, file_pattern |-> fp,
                          case_sensitive |-> cs, use_regex |-> re])

\* the model asks for search_files
SearchFiles ==
    \E pt \in SearchPatterns, root \in SearchRoots, fp \in BatchPatterns,
       cs \in BOOLEAN, re \in BOOLEAN, rev \in BOOLEAN :
        /\ root # "." => (pt = <<"x">> /\ fp = None /\ cs /\ ~re /\ ~rev)
        /\ Apply(SearchCall(pt, root, fp, cs, re), [NoEnv EXCEPT !.rev = rev])
        /\ UNCHANGED chatVars

\* the model asks for search_files and gives the pattern only
SearchFilesDefaults ==
    /\ Apply(Call("search_files", [pattern |-> <<"x">>]), NoEnv)
    /\ UNCHANGED chatVars

\* a text of two more lines than a report shows, each holding "xy"
ManyLines == Flatten([k \in 1..(MaxShown + 2) |-> <<"x", "y", "\n">>])

\* the model asks for edit_file to create a file of many lines
WriteManyLines ==
    /\ Apply(Call("edit_file", [path |-> UserPath("new", "n.txt"), new_text |-> ManyLines]),
             NoEnv)
    /\ UNCHANGED chatVars

\* what a subprocess may do: nothing to report, output, errors and a
\* non-zero exit code, or run past the timeout, after some output, as the
\* shell alone or as a shell that started child processes
Procs ==
    {NoProc,
     [NoProc EXCEPT !.stdout = TRUE],
     [NoProc EXCEPT !.stderr = TRUE, !.returncode = 1],
     [NoProc EXCEPT !.returncode = 1],
     [NoProc EXCEPT !.stdout = TRUE, !.stderr = TRUE],
     [NoProc EXCEPT !.timed_out = TRUE, !.stdout = TRUE],
     [NoProc EXCEPT !.timed_out = TRUE, !.children = TRUE]}

CmdDirs == {".", "new", "nodir"}
Timeouts == {1, DEFAULT_TIMEOUT}

RunCall(c, wd, t) ==
    Call("run_command", [command |-> c, working_directory |-> wd, timeout |-> t])

\* the model asks for run_command: every command in "." with the default
\* timeout, two of them in the other directories and with another timeout
RunCommand ==
    \E c \in Commands, wd \in CmdDirs, t \in Timeouts, pr \in Procs :
        /\ (wd # "." \/ t # DEFAULT_TIMEOUT \/ pr # NoProc) => c \in {CmdLs, CmdRmRoot}
        /\ Apply(RunCall(c, wd, t), [NoEnv EXCEPT !.proc = pr])
        /\ UNCHANGED chatVars

\* the model asks for run_command and gives the command only
RunCommandDefaults ==
    \E c \in {CmdLs, CmdRmRoot} :
        /\ Apply(Call("run_command", [command |-> c]), NoEnv)
        /\ UNCHANGED chatVars

\* the model asks for edit_file on a file in a directory that may not
\* exist yet
CreateFile ==
    /\ Apply(Call("edit_file", [path |-> UserPath("new", "n.txt"), new_text |-> <<"y">>]),
             NoEnv)
    /\ UNCHANGED chatVars


\* the model asks for edit_file on a path inside the backup directory: a
\* new file there or a backup of a.txt, with or without old_text
EditFileInBackupDir ==
    \E p \in {UserPath(BACKUP_DIR, "n.txt")}
             \cup {q \in DOMAIN fs : q.dir = BACKUP_DIR /\ q.base = "a.txt"},
       withOld \in BOOLEAN :
        /\ Apply(Call("edit_file",
                      IF withOld
                      THEN [path |-> p, old_text |-> <<"x">>, new_text |-> <<"y">>]
                      ELSE [path |-> p, new_text |-> <<"y">>]), NoEnv)
        /\ UNCHANGED chatVars

\* the model asks for read_file
ReadFile ==
    \E p \in Paths \cup {BinaryFile} \cup {q \in DOMAIN fs : q.dir = BACKUP_DIR} :
        /\ Apply(Call("read_file", [path |-> p]), NoEnv)
        /\ UNCHANGED chatVars

\* the model asks for list_files, with or without a path
ListFiles ==
    \E i \in {NoInput, [path |-> "sub"], [path |-> BACKUP_DIR], [path |-> "nodir"]} :
        /\ Apply(Call("list_files", i), NoEnv)
        /\ UNCHANGED chatVars

\* the model asks for edit_file with a new_text that cannot be encoded
EditFileUnencodable ==
    \E p \in {UserPath(".", "a.txt"), UserPath("new", "n.txt")} :
        /\ Apply(Call("edit_file", [path |-> p, old_text |-> <<"x">>,
                                    new_text |-> <<"y", Surrogate>>]), NoEnv)
        /\ UNCHANGED chatVars

\* the model asks for multi_file_edit with such a new_text
MultiFileEditUnencodable ==
    \E cs \in BOOLEAN, rev \in BOOLEAN :
        /\ Apply(Call("multi_file_edit", [old_text |-> <<"x">>, new_text |-> <<"y", Surrogate>>,
                                          case_sensitive |-> cs]),
                 [NoEnv EXCEPT !.rev = rev])
        /\ UNCHANGED chatVars


\* the model asks for search_files with a pattern that is no regular
\* expression, or in a directory that does not exist
SearchFilesFailing ==
    \E i \in {[pattern |-> <<"\\">>, use_regex |-> TRUE],
              [pattern |-> <<"x">>, path |-> "nodir"]} :
        /\ Apply(Call("search_files", i), NoEnv)
        /\ UNCHANGED chatVars
\* the model asks for a tool and leaves out a field its schema requires
OmitField ==
    \E c \in {Call("edit_file", [old_text |-> <<"x">>, new_text |-> <<"y">>]),
              Call("edit_file", [path |-> UserPath(".", "a.txt"), old_text |-> <<"x">>]),
              Call("edit_file", [path |-> UserPath("new", "n.txt")]),
              Call("multi_file_edit", [new_text |-> <<"y">>]),
              Call("multi_file_edit", [old_text |-> <<"x">>]),
              Call("read_file", NoInput),
              Call("search_files", [path |-> "."]),
              Call("run_command", [working_directory |-> ".", timeout |-> 1])} :
        /\ Apply(c, NoEnv)
        /\ UNCHANGED chatVars
\* a file is removed from outside the agent: one of the files the model
\* edits, or a backup
ExternalRemove ==
    /\ \E p \in DOMAIN fs :
          /\ p \in Paths \/ p.dir = BACKUP_DIR
          /\ fs' = RemoveFile(fs, p)
    /\ lastEdit' = NoEdit
    /\ phase' = "other"
    /\ mutLog' = <<>>
    /\ undoLog' = <<>>
    /\ events' = <<>>
    /\ lastBatch' = NoBatch
    /\ lastCall' = NoCall
    /\ series' = NoSeries
    /\ UNCHANGED <<dirs, edit_history, clock, spawned, result, nmut, running>>
    /\ UNCHANGED chatVars


\* the backup directory is removed from outside the agent, with the
\* backups in it (rm -rf of the directory, which the denylist lets through)
ExternalRemoveBackupDir ==
    /\ BACKUP_DIR \in dirs
    /\ dirs' = dirs \ {BACKUP_DIR}
    /\ fs' = [p \in {q \in DOMAIN fs : q.dir # BACKUP_DIR} |-> fs[p]]
    /\ lastEdit' = NoEdit
    /\ phase' = "other"
    /\ mutLog' = <<>>
    /\ undoLog' = <<>>
    /\ events' = <<>>
    /\ lastBatch' = NoBatch
    /\ lastCall' = NoCall
    /\ series' = NoSeries
    /\ UNCHANGED <<edit_history, clock, spawned, result, nmut, running>>
    /\ UNCHANGED chatVars
\* time passes between two calls
Tick ==
    /\ clock < MaxClock
    /\ clock' = clock + 1
    /\ UNCHANGED <<fs, dirs, edit_history, spawned, result, lastEdit, nmut,
                   phase, mutLog, undoLog, events, running, lastBatch, lastCall, series>>
    /\ UNCHANGED chatVars

\* ---------------------------------------------------------------- chat loop
\* the blocks of a model response
Text(t) == [type |-> "text", text |-> t]
ToolUse(n, i) == [type |-> "tool_use", name |-> n, input |-> i]

\* the responses the model may give
Responses ==
    << <<Text(<<"a">>)>>,
       <<Text(<<"a">>), Text(<<"b">>)>>,
       <<>>,
       <<Text(<<"a">>), ToolUse("read_file", [path |-> UserPath("new", "n.txt")])>>,
       <<ToolUse("no_such_tool", NoInput),
         ToolUse("edit_file", [path |-> UserPath(".", "a.txt")]),
         ToolUse("read_file", [path |-> BinaryFile])>>,
       <<ToolUse("edit_file", [path |-> UserPath(".", "a.txt"), old_text |-> <<"x">>,
                               new_text |-> <<"y">>]),
         Text(<<"b">>),
         ToolUse("undo_last_edit", NoInput)>>,
       <<ToolUse("run_command", [command |-> CmdRmRoot])>> >>

\* the ids the API gives the tool_use blocks of the k-th response
WithIds(r, k) ==
    [j \in 1..Len(r) |->
        IF r[j].type = "tool_use"
        THEN [type |-> "tool_use", id |-> <<k, j>>, name |-> r[j].name, input |-> r[j].input]
        ELSE r[j]]

\* {"role": "user", "content": user_input}
UserMessage(user_input) ==
    [role |-> "user", content |-> <<[type |-> "input", text |-> user_input]>>]

\* the assistant message built from the text and tool_use blocks
assistant_message(content) ==
    LET kept(b) == b.type \in {"text", "tool_use"}
    IN  [role |-> "assistant", content |-> SelectSeq(content, kept)]

\* a loop that takes the last tool_use block of the response first
NextToolUse_last(r, from) ==
    IF \E j \in from..Len(r) : r[j].type = "tool_use"
    THEN CHOOSE j \in from..Len(r) :
            /\ r[j].type = "tool_use"
            /\ \A k \in (j + 1)..Len(r) : r[k].type # "tool_use"
    ELSE 0

\* the first tool_use block of r at or after index from, or 0
NextToolUse(r, from) ==
    IF \E j \in from..Len(r) : r[j].type = "tool_use"
    THEN CHOOSE j \in from..Len(r) :
            /\ r[j].type = "tool_use"
            /\ \A k \in from..(j - 1) : r[k].type # "tool_use"
    ELSE 0

ToolResult(b, res) == [type |-> "tool_result", tool_use_id |-> b.id, content |-> res]

\* a loop that keeps the last result only
collect_last(results, b, res) == <<ToolResult(b, res)>>

\* tool_results.append({...})
collect(results, b, res) == Append(results, ToolResult(b, res))

\* `response.content[0].text if response.content else ""`
final_text(content) == IF content # <<>> THEN content[1].text ELSE <<>>

Answer(t) == [kind |-> "answer", text |-> t]
\* `return f"Error: {str(e)}"`
ErrorAnswer == [kind |-> "error", text |-> <<>>]

\* chat(user_input) is called: the user message is appended
UserInput ==
    /\ pc = "idle"
    /\ nturns < MaxTurns
    /\ messages' = Append(messages, UserMessage(<<"q">>))
    /\ pc' = "call"
    /\ nturns' = nturns + 1
    /\ UNCHANGED <<response, idx, tool_results, returned, ncalls, nreturns>>
    /\ UNCHANGED toolVars
    /\ UNCHANGED mainVars

\* self.client.messages.create(...) returns a response; the assistant
\* message is appended
ModelRespond ==
    /\ pc = "call"
    /\ ncalls < MaxCalls
    /\ \E k \in 1..Len(Responses) :
          /\ response' = WithIds(Responses[k], ncalls + 1)
          /\ messages' = Append(messages, assistant_message(response'))
    /\ ncalls' = ncalls + 1
    /\ tool_results' = <<>>
    /\ idx' = 1
    /\ pc' = "tools"
    /\ UNCHANGED <<returned, nturns, nreturns>>
    /\ UNCHANGED toolVars
    /\ UNCHANGED mainVars

\* self.client.messages.create(...) raises: chat returns "Error: ..."
ModelFail ==
    /\ pc = "call"
    /\ returned' = ErrorAnswer
    /\ pc' = "idle"
    /\ nreturns' = nreturns + 1
    /\ UNCHANGED <<messages, response, idx, tool_results, ncalls, nturns>>
    /\ UNCHANGED toolVars
    /\ UNCHANGED mainVars

\* the loop over response.content reaches its next tool_use block: the tool
\* is executed and its result collected; an exception that leaves
\* _execute_tool ends chat with "Error: ..."
Dispatch ==
    /\ pc = "tools"
    /\ \E j \in {NextToolUse(response, idx)} :
          /\ j # 0
          /\ Apply(Call(response[j].name, response[j].input), NoEnv)
          /\ IF result'.msg = "RAISED"
             THEN /\ returned' = ErrorAnswer
                  /\ pc' = "idle"
                  /\ nreturns' = nreturns + 1
                  /\ UNCHANGED <<idx, tool_results>>
             ELSE /\ tool_results' = collect(tool_results, response[j], result')
                  /\ idx' = j + 1
                  /\ UNCHANGED <<returned, pc, nreturns>>
    /\ UNCHANGED <<messages, response, ncalls, nturns>>
    /\ UNCHANGED mainVars


\* a loop that gives up after its second round trip
SendResults_capped ==
    /\ pc = "tools"
    /\ NextToolUse(response, idx) = 0
    /\ tool_results # <<>>
    /\ messages' = Append(messages, [role |-> "user", content |-> tool_results])
    /\ pc' = IF ncalls < 2 THEN "call" ELSE "idle"
    /\ returned' = IF ncalls < 2 THEN returned ELSE ErrorAnswer
    /\ nreturns' = IF ncalls < 2 THEN nreturns ELSE nreturns + 1
    /\ UNCHANGED <<response, idx, tool_results, ncalls, nturns>>
    /\ UNCHANGED toolVars
    /\ UNCHANGED mainVars
\* `if tool_results:` after the loop: one user message carries them all
SendResults ==
    /\ pc = "tools"
    /\ NextToolUse(response, idx) = 0
    /\ tool_results # <<>>
    /\ messages' = Append(messages, [role |-> "user", content |-> tool_results])
    /\ pc' = "call"
    /\ UNCHANGED <<response, idx, tool_results, returned, ncalls, nturns, nreturns>>
    /\ UNCHANGED toolVars
    /\ UNCHANGED mainVars

\* `else: return ...`: no tool was used
ReturnText ==
    /\ pc = "tools"
    /\ NextToolUse(response, idx) = 0
    /\ tool_results = <<>>
    /\ returned' = Answer(final_text(response))
    /\ pc' = "idle"
    /\ nreturns' = nreturns + 1
    /\ UNCHANGED <<messages, response, idx, tool_results, ncalls, nturns>>
    /\ UNCHANGED toolVars
    /\ UNCHANGED mainVars

\* ---------------------------------------------------------------- main loop
\* str.strip(): leading and trailing whitespace removed
RECURSIVE lstrip(_)
lstrip(s) == IF s # <<>> /\ Head(s) \in {" ", "\n"} THEN lstrip(Tail(s)) ELSE s

strip(s) == Reverse(lstrip(Reverse(lstrip(s))))

\* the words that end the session
QuitWords == {<<"e", "x", "i", "t">>, <<"q", "u", "i", "t">>}

\* the lines the user may type
Lines == {<<"e", "x", "i", "t">>, <<" ", "Q", "u", "i", "t", " ">>, <<>>, <<" ">>,
          <<"e", "x", "i", "t", "s">>, <<"q">>}

\* input() returns a line: "exit" or "quit" ends the loop with "Goodbye!",
\* an empty line is skipped, any other line goes to agent.chat
ReadInput ==
    /\ session = "running"
    /\ pc = "idle"
    /\ ~eof
    /\ \E line \in Lines :
          LET user_input == strip(line)
          IN  IF Lower(user_input) \in QuitWords
              THEN /\ session' = "ended"
                   /\ farewell' = TRUE
                   /\ lastInput' = "quit"
                   /\ UNCHANGED <<messages, pc, nturns>>
              ELSE IF user_input = <<>>
              THEN /\ lastInput' = "empty"
                   /\ UNCHANGED <<session, farewell, messages, pc, nturns>>
              ELSE /\ nturns < MaxTurns
                   /\ lastInput' = "line"
                   /\ messages' = Append(messages, UserMessage(user_input))
                   /\ pc' = "call"
                   /\ nturns' = nturns + 1
                   /\ UNCHANGED <<session, farewell>>
    /\ UNCHANGED <<eof, response, idx, tool_results, returned, ncalls, nreturns>>
    /\ UNCHANGED toolVars

\* input() raises EOFError at the end of the input: `except Exception`
\* prints the error and the loop goes on
ReadEof ==
    /\ session = "running"
    /\ pc = "idle"
    /\ eof' = TRUE
    /\ lastInput' = "eof"
    /\ UNCHANGED <<session, farewell>>
    /\ UNCHANGED <<messages, pc, response, idx, tool_results, returned, ncalls, nturns,
                   nreturns>>
    /\ UNCHANGED toolVars

\* KeyboardInterrupt, at input() or during agent.chat: "Goodbye!" and break
Interrupt ==
    /\ session = "running"
    /\ session' = "ended"
    /\ farewell' = TRUE
    /\ lastInput' = "interrupt"
    /\ pc' = "idle"
    /\ UNCHANGED <<eof, messages, response, idx, tool_results, returned, ncalls, nturns,
                   nreturns>>
    /\ UNCHANGED toolVars

\* the state of a new AIAgent's conversation
InitChat ==
    /\ messages = <<>>
    /\ pc = "idle"
    /\ response = <<>>
    /\ idx = 1
    /\ tool_results = <<>>
    /\ returned = [kind |-> "none", text |-> <<>>]
    /\ ncalls = 0
    /\ nturns = 0
    /\ nreturns = 0
    /\ session = "running"
    /\ eof = FALSE
    /\ lastInput = "none"
    /\ farewell = FALSE

\* the state after AIAgent.__init__: the backup directory exists, the
\* history is empty; the working directory holds some files
InitTools ==
    /\ fs = [p \in {UserPath(".", "a.txt"), UserPath("sub", "a.txt"), UserPath(".", "b.py"),
                    HiddenFile, InHiddenDir, BinaryFile} |->
               CASE p = UserPath(".", "a.txt")   -> <<"x", "y", "x">>
                 [] p = UserPath("sub", "a.txt") -> <<"x", "\r", "\n">>
                 [] p = UserPath(".", "b.py")    -> <<"X", "y">>
                 [] p = BinaryFile               -> <<BadByte>>
                 [] OTHER                        -> <<"x">>]
    /\ dirs = {".", "sub", ".git", BACKUP_DIR}
    /\ edit_history = <<>>
    /\ clock = 0
    /\ spawned = {}
    /\ result = Msg("")
    /\ lastEdit = NoEdit
    /\ nmut = 0
    /\ phase = "mut"
    /\ mutLog = <<>>
    /\ undoLog = <<>>
    /\ events = <<>>
    /\ running = {}
    /\ lastBatch = NoBatch
    /\ lastCall = NoCall
    /\ series = NoSeries

vars == <<toolVars, chatVars>>

Init == InitTools /\ InitChat

Next == EditFile \/ EditFileNoOld \/ UndoLastEdit \/ Tick

Spec == Init /\ [][Next]_vars

\* the batch editor with single edits and undo
NextBatch ==
    \/ MultiFileEdit \/ MultiFileEditDefaults \/ BatchEditFile \/ EditFileNoOld
    \/ UndoLastEdit \/ Tick

SpecBatch == Init /\ [][NextBatch]_vars

\* the command runner, and edit_file, which may create a directory
NextCmd == RunCommand \/ RunCommandDefaults \/ CreateFile

SpecCmd == Init /\ [][NextCmd]_vars

\* the chat loop: user turns, model calls and tool dispatch
NextChat == UserInput \/ ModelRespond \/ ModelFail \/ Dispatch \/ SendResults \/ ReturnText

SpecChat == Init /\ [][NextChat]_vars


\* the chat loop when the statements of chat() that follow a model call are
\* run to their end: each tool call returns, and so does chat itself
SpecChatFair ==
    SpecChat /\ WF_vars(Dispatch) /\ WF_vars(SendResults) /\ WF_vars(ReturnText)
\* single edits and undos while files are removed from outside
NextUndo == BatchEditFile \/ EditFileNoOld \/ UndoLastEdit \/ ExternalRemove \/ Tick

SpecUndo == Init /\ [][NextUndo]_vars

\* the interactive session: main()'s input loop around the chat loop
NextMain ==
    \/ ReadInput \/ ReadEof \/ Interrupt
    \/ ModelRespond \/ ModelFail \/ Dispatch \/ SendResults \/ ReturnText

SpecMain == Init /\ [][NextMain]_vars



\* every tool that reads or writes files, also on paths inside the backup
\* directory
NextKeep ==
    \/ EditFileInBackupDir \/ BatchEditFile \/ EditFileNoOld \/ MultiFileEditDefaults
    \/ UndoLastEdit \/ SearchFilesDefaults \/ ReadFile \/ ListFiles \/ Tick

SpecKeep == Init /\ [][NextKeep]_vars

\* the tools that push and pop history entries, with the edits that fail
\* and while files are removed from outside
NextHist ==
    \/ BatchEditFile \/ EditFileNoOld \/ EditFileUnencodable
    \/ MultiFileEditDefaults \/ MultiFileEditUnencodable
    \/ UndoLastEdit \/ ExternalRemove \/ Tick

SpecHist == Init /\ [][NextHist]_vars

\* the tools that only read, and the calls that leave a required field
\* out, between edits
NextTools ==
    \/ ReadFile \/ ListFiles \/ SearchFilesDefaults \/ SearchFilesFailing \/ OmitField
    \/ BatchEditFile \/ MultiFileEditDefaults \/ UndoLastEdit \/ Tick

SpecTools == Init /\ [][NextTools]_vars
\* edits and undos while the backup directory may be removed from outside
NextBackup ==
    BatchEditFile \/ EditFileNoOld \/ UndoLastEdit \/ ExternalRemoveBackupDir \/ Tick

SpecBackup == Init /\ [][NextBackup]_vars
\* searches between the edits that create files and backups
NextSearch ==
    \/ SearchFiles \/ SearchFilesDefaults \/ WriteManyLines \/ BatchEditFile
    \/ MultiFileEditDefaults \/ UndoLastEdit

SpecSearch == Init /\ [][NextSearch]_vars

\* dry runs of the batch editor between batches, single edits and undos
NextDryRun ==
    \/ MultiFileEditDryRun \/ MultiFileEditDefaults \/ BatchEditFile
    \/ UndoLastEdit \/ Tick

SpecDryRun == Init /\ [][NextDryRun]_vars

\* ------------------------------------------------- properties: single edits
EditCall(p, o, n) == Call("edit_file", [path |-> p, old_text |-> o, new_text |-> n])

\* S occurs in C at index i
Occurs(C, S, i) == i >= 1 /\ i + Len(S) - 1 <= Len(C) /\ SubSeq(C, i, i + Len(S) - 1) = S

\* the occurrences of S in C that a left-to-right scan replaces: an
\* occurrence counts unless it overlaps an earlier one that counts
Replaced(C, S) ==
    CHOOSE P \in SUBSET {i \in 1..Len(C) : Occurs(C, S, i)} :
        \A i \in {k \in 1..Len(C) : Occurs(C, S, k)} :
            i \in P <=> ~\E j \in P : j < i /\ i < j + Len(S)

\* C with every occurrence of the non-empty S replaced by T
EveryOccurrenceReplaced(C, S, T) ==
    LET P == Replaced(C, S)
    IN  Flatten([i \in 1..Len(C) |->
                   IF i \in P THEN T
                   ELSE IF \E j \in P : j < i /\ i < j + Len(S) THEN <<>>
                   ELSE <<C[i]>>])

\* the files other than those in keep are what they were
Untouched(keep) ==
    /\ (DOMAIN fs') \ keep = (DOMAIN fs) \ keep
    /\ \A q \in (DOMAIN fs) \ keep : fs'[q] = fs[q]

\* C1: a successful Replace-branch edit_file(F, S, T) immediately followed by
\* undo_last_edit() leaves F with exactly the content it had before the edit.
C1_EditUndoRestores ==
    (lastEdit.stage = "undone" /\ lastEdit.msg = "Successfully edited")
    => /\ lastEdit.path \in DOMAIN fs
       /\ fs[lastEdit.path] = lastEdit.before[1]

C1_Witness ==
    /\ lastEdit.stage = "undone"
    /\ lastEdit.msg = "Successfully edited"
    /\ result.msg = "Undone: Restored"
    /\ Len(lastEdit.before[1]) = 3

\* C2: edit_file(F, S, T) on an existing F whose content C contains the
\* non-empty S leaves F with C in which every occurrence of S is replaced
\* by T, writes exactly one backup file, which holds C, and pushes exactly
\* one history entry, with action "edit" and that backup's path.
C2_EditReplacesAll ==
    [][\A p \in Paths, o \in OldTexts \ {<<>>}, n \in NewTexts :
         (/\ p \in DOMAIN fs
          /\ \E i \in 1..Len(fs[p]) : Occurs(fs[p], o, i)
          /\ Apply(EditCall(p, o, n), NoEnv))
         => /\ fs'[p] = EveryOccurrenceReplaced(fs[p], o, n)
            /\ Len(edit_history') = Len(edit_history) + 1
            /\ SubSeq(edit_history', 1, Len(edit_history)) = edit_history
            /\ LET e == edit_history'[Len(edit_history')]
               IN  /\ e.action = "edit"
                   /\ e.path = p
                   /\ e.backup_path # None
                   /\ e.backup_path[1].dir = BACKUP_DIR
                   /\ e.backup_path[1] \in DOMAIN fs'
                   /\ fs'[e.backup_path[1]] = fs[p]
                   /\ Untouched({p, e.backup_path[1]})]_vars

\* C4: edit_file(P, "", new_text) on a path P where no file exists creates P
\* with content exactly new_text and pushes a "create" entry with a null
\* backup path, and an immediately following undo_last_edit() deletes P.
C4_CreateThenUndo ==
    [][/\ \A p \in Paths, n \in NewTexts :
            (p \notin DOMAIN fs /\ Apply(EditCall(p, <<>>, n), NoEnv))
            => /\ p \in DOMAIN fs' /\ fs'[p] = n
               /\ result'.msg = "Successfully created"
               /\ Len(edit_history') = Len(edit_history) + 1
               /\ edit_history'[Len(edit_history')].action = "create"
               /\ edit_history'[Len(edit_history')].path = p
               /\ edit_history'[Len(edit_history')].backup_path = None
       /\ (/\ lastEdit.stage = "edited" /\ lastEdit.msg = "Successfully created"
           /\ lastEdit.before = None /\ UndoLastEdit)
          => lastEdit.path \notin DOMAIN fs']_vars

C4_Witness ==
    /\ lastEdit.stage = "undone"
    /\ lastEdit.msg = "Successfully created"
    /\ lastEdit.before = None
    /\ result.msg = "Undone: Removed newly created file"
    /\ lastEdit.path \notin DOMAIN fs

\* C5: edit_file(F, S, T) on an existing file F whose content does not
\* contain the non-empty S returns "Text not found", leaves F's content as
\* it was and pushes no history entry; the only file written is a backup
\* of F.
C5_TextNotFound ==
    [][\A p \in Paths, o \in OldTexts \ {<<>>}, n \in NewTexts :
         (/\ p \in DOMAIN fs
          /\ ~\E i \in 1..Len(fs[p]) : Occurs(fs[p], o, i)
          /\ Apply(EditCall(p, o, n), NoEnv))
         => /\ result'.msg = "Text not found in file"
            /\ p \in DOMAIN fs' /\ fs'[p] = fs[p]
            /\ edit_history' = edit_history
            /\ dirs' = dirs
            /\ \E b \in {BackupPath(p.base, clock)} :
                  /\ Untouched({b})
                  /\ b \in DOMAIN fs' /\ fs'[b] = fs[p]]_vars

\* ------------------------------------------------ properties: batch and undo
\* C3: undo is last-in-first-out over the one history that edit_file and
\* multi_file_edit share: after n successful mutations and nothing else, the
\* i-th undo_last_edit acts on the target of the (n-i+1)-th mutation, and
\* the (n+1)-th reports "No edits to undo".
C3_UndoIsLifo ==
    phase \in {"mut", "undo"}
    => \A i \in 1..Len(undoLog) :
          IF i <= Len(mutLog)
          THEN undoLog[i].target = Some(mutLog[Len(mutLog) - i + 1])
          ELSE undoLog[i].target = None /\ undoLog[i].msg = "No edits to undo"

C3_Witness ==
    /\ phase = "undo"
    /\ Len(mutLog) = 2
    /\ Len(undoLog) = 3
    /\ mutLog[1] = UserPath("new", "n.txt")
    /\ mutLog[2] = UserPath("sub", "a.txt")
    /\ undoLog[3].msg = "No edits to undo"

\* C6: multi_file_edit with dry_run = true changes no file's content,
\* creates no backup and leaves the history as it was, whatever its other
\* arguments.
C6_DryRunChangesNothing ==
    [][lastEdit'.stage = "dry_run"
       => (fs' = fs /\ dirs' = dirs /\ edit_history' = edit_history)]_vars

C6_Witness ==
    /\ result.msg = "DRY RUN - Would modify"
    /\ Len(result.report) = 2
    /\ result.nums = <<2, 2>>

\* ------------------------------------------------- properties: command runner
\* C7: run_command given a command for which is_command_safe is false
\* creates no subprocess, whatever the working directory and the timeout,
\* and returns "Command blocked" when the working directory exists.
C7_BlockedNeverRuns ==
    /\ \A c \in spawned : is_command_safe(c)
    /\ (lastEdit.stage = "run" /\ ~is_command_safe(lastEdit.command))
       => /\ lastEdit.command \notin spawned
          /\ lastEdit.working_directory \in dirs
             => result.msg = "Command blocked for safety reasons"

C7_Witness ==
    /\ lastEdit.stage = "run"
    /\ lastEdit.command = CmdRmRootUpper
    /\ result.msg = "Command blocked for safety reasons"
    /\ CmdLs \in spawned

\* ------------------------------------------------------ properties: chat loop
\* the index of the last assistant message, or 0
LastAssistant ==
    IF \E k \in 1..Len(messages) : messages[k].role = "assistant"
    THEN CHOOSE k \in 1..Len(messages) :
            /\ messages[k].role = "assistant"
            /\ \A j \in (k + 1)..Len(messages) : messages[j].role # "assistant"
    ELSE 0

\* the tool_use blocks of a message
ToolUses(m) == LET isUse(b) == b.type = "tool_use" IN SelectSeq(m.content, isUse)

\* where a tool_result block for the tool_use id u stands in the messages
\* after the k-th
Answers(u, k) ==
    UNION {{<<j, i>> : i \in {n \in 1..Len(messages[j].content) :
                                /\ messages[j].content[n].type = "tool_result"
                                /\ messages[j].content[n].tool_use_id = u}} :
           j \in (k + 1)..Len(messages)}

\* C8: whenever the model is called, every tool_use block of the preceding
\* assistant message has been answered by exactly one tool_result block
\* with the same id, and all those results are in the one user message that
\* directly follows that assistant message.
C8_ToolUsesAnswered ==
    (pc = "call" /\ LastAssistant # 0)
    => LET k    == LastAssistant
           uses == ToolUses(messages[k])
       IN  uses # <<>>
           => /\ k < Len(messages)
              /\ messages[k + 1].role = "user"
              /\ Len(messages[k + 1].content) = Len(uses)
              /\ \A i \in 1..Len(uses) :
                    /\ Cardinality(Answers(uses[i].id, k)) = 1
                    /\ \E a \in Answers(uses[i].id, k) : a[1] = k + 1

C8_Witness ==
    /\ pc = "call"
    /\ LastAssistant # 0
    /\ Len(ToolUses(messages[LastAssistant])) = 3
    /\ LastAssistant + 1 = Len(messages)
    /\ Len(messages[Len(messages)].content) = 3


\* a tool list that offers one more tool than the dispatcher handles
tools_extra ==
    << [name |-> "read_file",       required |-> {"path"}],
       [name |-> "list_files",      required |-> {}],
       [name |-> "edit_file",       required |-> {"path", "new_text"}],
       [name |-> "delete_file",     required |-> {"path"}],
       [name |-> "search_files",    required |-> {"pattern"}],
       [name |-> "multi_file_edit", required |-> {"old_text", "new_text"}],
       [name |-> "run_command",     required |-> {"command"}],
       [name |-> "undo_last_edit",  required |-> {}] >>

\* AIAgent.tools: the definitions of the file, search, system and history
\* tools, in the order __init__ collects them; of each input_schema the
\* "required" list
tools ==
    << [name |-> "read_file",       required |-> {"path"}],
       [name |-> "list_files",      required |-> {}],
       [name |-> "edit_file",       required |-> {"path", "new_text"}],
       [name |-> "search_files",    required |-> {"pattern"}],
       [name |-> "multi_file_edit", required |-> {"old_text", "new_text"}],
       [name |-> "run_command",     required |-> {"command"}],
       [name |-> "undo_last_edit",  required |-> {}] >>
\* the tools the agent declares, and the fields their definitions require
Declared == {"read_file", "list_files", "edit_file", "search_files", "multi_file_edit",
             "run_command", "undo_last_edit"}

required(tool_name) ==
    CASE tool_name = "read_file"       -> {"path"}
      [] tool_name = "list_files"      -> {}
      [] tool_name = "edit_file"       -> {"path", "new_text"}
      [] tool_name = "search_files"    -> {"pattern"}
      [] tool_name = "multi_file_edit" -> {"old_text", "new_text"}
      [] tool_name = "run_command"     -> {"command"}
      [] tool_name = "undo_last_edit"  -> {}

\* C9: dispatching any tool call yields a result for the model and does not
\* end the turn: the loop goes on with one more tool_result, for that call's
\* id; a call that lacks a required field yields "Error executing <name>",
\* a call of an undeclared tool "Unknown tool: <name>".
C9_DispatchAlwaysAnswers ==
    [][(pc = "tools" /\ NextToolUse(response, idx) # 0)
       => LET b == response[NextToolUse(response, idx)]
          IN  /\ pc' = "tools"
              /\ nreturns' = nreturns
              /\ Len(tool_results') = Len(tool_results) + 1
              /\ tool_results'[Len(tool_results')].tool_use_id = b.id
              /\ tool_results'[Len(tool_results')].content = result'
              /\ result'.msg # ""
              /\ b.name \notin Declared
                 => result'.msg = "Unknown tool" /\ result'.name = b.name
              /\ (b.name \in Declared /\ \E f \in required(b.name) : f \notin DOMAIN b.input)
                 => result'.msg = "Error executing" /\ result'.name = b.name]_vars

C9_Witness ==
    /\ pc = "tools"
    /\ Len(tool_results) = 3
    /\ tool_results[1].content.msg = "Unknown tool"
    /\ tool_results[1].content.name = "no_such_tool"
    /\ tool_results[2].content.msg = "Error executing"
    /\ tool_results[2].content.name = "edit_file"
    /\ tool_results[3].content.msg = "Error reading file"

\* the text blocks of a response, concatenated
RECURSIVE ConcatText(_)
ConcatText(r) ==
    IF r = <<>> THEN <<>>
    ELSE (IF Head(r).type = "text" THEN Head(r).text ELSE <<>>) \o ConcatText(Tail(r))

\* C10: when a response holds no tool_use block, chat returns the
\* concatenation of all its text blocks and the turn ends; each user turn
\* yields exactly one terminal answer, which is never a tool result.
C10_ReturnsAllText ==
    /\ pc = "idle" => nreturns = nturns
    /\ pc # "idle" => nreturns + 1 = nturns
    /\ returned.kind \in {"none", "answer", "error"}
    /\ (pc = "idle" /\ returned.kind = "answer")
       => /\ ToolUses([content |-> response]) = <<>>
          /\ returned.text = ConcatText(response)

\* the number of tool_use blocks among the first n blocks of a response
UsesBefore(r, n) == Cardinality({j \in 1..n : j <= Len(r) /\ r[j].type = "tool_use"})

\* C11: the tool calls of one response are executed one at a time in the
\* order the model emitted them: each call acts on the files, backups and
\* history the calls before it left, and the tool_result blocks stand in the
\* order of their tool_use blocks.
C11_SequentialInOrder ==
    /\ [](pc = "tools"
          => LET uses == ToolUses([content |-> response])
             IN  /\ Len(tool_results) = UsesBefore(response, idx - 1)
                 /\ Len(tool_results) <= Len(uses)
                 /\ \A i \in 1..Len(tool_results) :
                       tool_results[i].tool_use_id = uses[i].id)
    /\ [][(pc = "tools" /\ toolVars' # toolVars)
          => LET uses == ToolUses([content |-> response])
                 b    == uses[Len(tool_results) + 1]
                 st   == execute_tool(State, b.name, b.input, NoEnv)
             IN  /\ Len(tool_results) < Len(uses)
                 /\ fs' = st.fs /\ dirs' = st.dirs
                 /\ edit_history' = st.edit_history
                 /\ tool_results' = Append(tool_results, ToolResult(b, st.result))]_vars

\* the edit and the undo of one response: the undo found the edit's entry
C11_Witness ==
    /\ pc = "tools"
    /\ Len(tool_results) = 2
    /\ tool_results[1].content.msg = "Successfully edited"
    /\ tool_results[2].content.msg = "Undone: Restored"
    /\ tool_results[1].tool_use_id[2] < tool_results[2].tool_use_id[2]
    /\ edit_history = <<>>

\* ------------------------------------------- properties: order of operations
\* the k-th file operation of the last call wrote the file p
WritesTo(k, p) ==
    \/ events[k].op \in {"write", "remove"} /\ events[k].path = p
    \/ events[k].op = "copy" /\ events[k].to = Some(p)

\* C12: in edit_file and in multi_file_edit without dry_run, whenever an
\* existing target file is overwritten, a backup that holds the content it
\* had has been written before, and still holds it: no write to a target
\* precedes its snapshot.
C12_BackupBeforeOverwrite ==
    \A k \in 1..Len(events) :
        (events[k].op = "write" /\ events[k].old # None)
        => \E j \in 1..(k - 1) :
              /\ events[j].op = "copy"
              /\ events[j].path = events[k].path
              /\ events[j].content = events[k].old[1]
              /\ \A m \in (j + 1)..(k - 1) : ~WritesTo(m, events[j].to[1])

\* a batch that overwrote two files whose backups have one name
C12_Witness ==
    /\ result.msg = "Successfully modified"
    /\ Len(events) = 4
    /\ events[2].op = "write" /\ events[2].old # None
    /\ events[4].op = "write" /\ events[4].old # None
    /\ events[1].to = events[3].to
    /\ events[2].path # events[4].path

\* C13: after a multi_file_edit without dry_run that modified k files, the
\* i-th of the next k undo_last_edit calls reverts the (k-i+1)-th modified
\* file, and the files reverted so far hold the content they had before the
\* batch; after k undos every file of the batch does.
C13_BatchUndoRestores ==
    lastBatch.undone > 0
    => LET k == Len(lastBatch.files)
           i == lastBatch.undone
       IN  /\ result.msg = "Undone: Restored"
           /\ result.target = Some(lastBatch.files[k - i + 1])
           /\ \A j \in (k - i + 1)..k :
                 /\ lastBatch.files[j] \in DOMAIN fs
                 /\ fs[lastBatch.files[j]] = lastBatch.pre[lastBatch.files[j]]

\* C14: edit_file on an existing file F with empty old_text first takes a
\* backup of F, then overwrites F with new_text and pushes an entry tagged
\* "create"; the undo_last_edit that follows deletes F and does not restore
\* the content it had.
C14_OverwriteThenUndoDeletes ==
    (lastEdit.msg = "Successfully created" /\ lastEdit.before # None)
    => LET F == lastEdit.path
       IN  /\ lastEdit.stage = "edited"
              => /\ Len(events) = 2
                 /\ events[1].op = "copy" /\ events[1].path = F
                 /\ events[1].content = lastEdit.before[1]
                 /\ events[2].op = "write" /\ events[2].path = F
                 /\ fs[F] = events[2].content
                 /\ edit_history # <<>>
                 /\ edit_history[Len(edit_history)].action = "create"
                 /\ edit_history[Len(edit_history)].path = F
                 /\ edit_history[Len(edit_history)].backup_path = events[1].to
           /\ lastEdit.stage = "undone"
              => /\ F \notin DOMAIN fs
                 /\ result.msg = "Undone: Removed newly created file"
                 /\ Len(events) = 1
                 /\ events[1].op = "remove" /\ events[1].path = F

C14_Witness ==
    /\ lastEdit.stage = "undone"
    /\ lastEdit.msg = "Successfully created"
    /\ lastEdit.before = Some(<<"x", "y", "x">>)
    /\ lastEdit.path = UserPath(".", "a.txt")
    /\ lastEdit.path \notin DOMAIN fs

\* ------------------------------------------------------- properties: undo
\* C15: undo_last_edit on an empty history returns "No edits to undo"
\* without raising and leaves every file, every backup and the empty
\* history as they were.
C15_UndoOnEmptyHistory ==
    [][(edit_history = <<>> /\ UndoLastEdit)
       => /\ result'.msg = "No edits to undo"
          /\ fs' = fs
          /\ dirs' = dirs
          /\ edit_history' = <<>>]_vars

\* backups exist, the history is empty again and one more undo was asked for
C15_Witness ==
    /\ result.msg = "No edits to undo"
    /\ edit_history = <<>>
    /\ \E p \in DOMAIN fs : p.dir = BACKUP_DIR
    /\ lastEdit.stage = "none"

\* the entry undo_last_edit pops
LastEntry == edit_history[Len(edit_history)]

\* C16: undo_last_edit of a "create" entry deletes the target when it still
\* exists and reports success without an error when the target was removed
\* already; the target is absent afterwards in both cases.
C16_UndoCreate ==
    [][(edit_history # <<>> /\ LastEntry.action = "create" /\ UndoLastEdit)
       => /\ result'.msg = "Undone: Removed newly created file"
          /\ result'.target = Some(LastEntry.path)
          /\ LastEntry.path \notin DOMAIN fs'
          /\ \A q \in (DOMAIN fs) \ {LastEntry.path} : q \in DOMAIN fs' /\ fs'[q] = fs[q]
          /\ edit_history' = SubSeq(edit_history, 1, Len(edit_history) - 1)]_vars

\* the undo of a creation whose file had been removed: it removed nothing
C16_Witness ==
    /\ result.msg = "Undone: Removed newly created file"
    /\ result.target = Some(UserPath("new", "n.txt"))
    /\ events = <<>>
    /\ UserPath("new", "n.txt") \notin DOMAIN fs

\* C17: undo_last_edit of an "edit" entry reports "Backup not found" and
\* leaves the target as it is when the recorded backup exists no more;
\* else it overwrites the target with the backup's content, and the backup
\* file still exists afterwards.
C17_UndoEdit ==
    [][(edit_history # <<>> /\ LastEntry.action = "edit" /\ UndoLastEdit)
       => LET path == LastEntry.path
              b    == LastEntry.backup_path
          IN  IF b = None \/ b[1] \notin DOMAIN fs
              THEN /\ result'.msg = "Error: Backup not found for"
                   /\ result'.target = Some(path)
                   /\ fs' = fs
              ELSE /\ result'.msg = "Undone: Restored"
                   /\ path \in DOMAIN fs' /\ fs'[path] = fs[b[1]]
                   /\ b[1] \in DOMAIN fs' /\ fs'[b[1]] = fs[b[1]]]_vars

\* the undo of an edit whose backup had been removed
C17_Witness ==
    /\ result.msg = "Error: Backup not found for"
    /\ result.target = Some(UserPath(".", "a.txt"))
    /\ UserPath(".", "a.txt") \in DOMAIN fs
    /\ fs[UserPath(".", "a.txt")] = <<"y", "y", "y">>

\* C18: when a command run by run_command exceeds its timeout, the process
\* and its child processes are terminated, so that none is running once
\* run_command has returned, and the result is the "Command timed out"
\* message, without partial output.
C18_TimeoutTerminatesAll ==
    (lastEdit.stage = "run" /\ result.msg = "Command timed out after")
    => /\ lastEdit.command \notin running
       /\ result.report = <<>>

\* ----------------------------------------------------- properties: session
\* C19: the interactive session ends when the user enters "exit" or "quit"
\* and when the input reaches its end, and ends with a farewell message on
\* an interrupt; in each case the input loop is left and no further model
\* call is made.
C19_SessionEnds ==
    /\ [](lastInput \in {"quit", "eof", "interrupt"} => session = "ended")
    /\ [](lastInput = "interrupt" => farewell)
    /\ [][session = "ended" => (session' = "ended" /\ ncalls' = ncalls)]_vars

\* ------------------------------------------------ properties: batch report
\* the files as they were when the reported multi_file_edit began
FilesBefore == IF result.msg = "Successfully modified" THEN lastBatch.pre ELSE fs

\* C20: multi_file_edit reports every candidate file together with its
\* occurrence count, with dry_run and without: each line of the report
\* names a file and the number of occurrences of old_text in it, and the
\* counts add up to the reported total.
C20_ReportHasCounts ==
    result.msg \in {"DRY RUN - Would modify", "Successfully modified"}
    => /\ result.nums[1] = Len(result.report)
       /\ \A k \in 1..Len(result.report) :
             /\ Len(result.report[k]) = 2
             /\ result.report[k][1] \in DOMAIN FilesBefore
             /\ result.report[k][2] >= 1
             /\ result.report[k][2] \in
                   {Count(read(FilesBefore[result.report[k][1]]), <<"x">>),
                    Count(Lower(read(FilesBefore[result.report[k][1]])), <<"x">>)}

\* the files of a case-insensitive batch call that hold old_text
Candidates(root, fp, rev) ==
    {p \in DOMAIN fs :
        /\ \E i \in 1..Len(Walk(State, root, fp, rev)) : Walk(State, root, fp, rev)[i] = p
        /\ Decodable(read(fs[p]))
        /\ Contains(Lower(read(fs[p])), <<"x">>)}

\* C21: multi_file_edit with case_sensitive = false replaces every
\* occurrence of old_text, whatever its case, in every candidate file by
\* new_text written character for character as given, also when new_text
\* holds backslashes.
C21_ReplacementAsGiven ==
    [][\A b \in BatchArgs, fp \in BatchPatterns, env \in BatchEnvs :
         (/\ ~b.case_sensitive
          /\ b.path \in dirs
          /\ Apply(MultiCall(b.new_text, b.path, fp, FALSE, FALSE), env))
         => \A p \in Candidates(b.path, fp, env.rev) :
               /\ p \in DOMAIN fs'
               /\ fs'[p] = SubFrom(read(fs[p]), <<"x">>, b.new_text, 1)]_vars

\* ------------------------------------------------------ properties: search
RECURSIVE SumSeq(_)
SumSeq(q) == IF q = <<>> THEN 0 ELSE Head(q) + SumSeq(Tail(q))

\* the number of lines of the file p that match
MatchingLines(p, a, regex) ==
    Cardinality({k \in 1..Len(readlines(fs[p])) :
                    LineMatches(readlines(fs[p])[k], a, regex)})

\* the files a search reads: those walked that decode
FilesRead(root, fp, rev) ==
    SelectSeq(Walk(State, root, fp, rev), LAMBDA p : Decodable(fs[p]))

\* the arguments of the last call, a search_files, with its defaults
SearchArgs ==
    [pattern |-> lastEdit.input["pattern"],
     path |-> Get(lastEdit.input, "path", "."),
     file_pattern |-> Get(lastEdit.input, "file_pattern", None),
     case_sensitive |-> Get(lastEdit.input, "case_sensitive", FALSE),
     use_regex |-> Get(lastEdit.input, "use_regex", FALSE)]

\* C22: search_files reports total_matches as the exact number of matching
\* lines over all searched files, files_matched as the exact number of
\* files with a matching line and files_searched as the exact number of
\* files read, while it lists at most 5 matching lines per file, followed
\* by the number of the remaining matches.
C22_SearchTotalsExact ==
    (lastEdit.stage = "search" /\ result.msg = "Found")
    => LET a     == SearchArgs
           rx    == re_compile(a.pattern, 1).text
           files == FilesRead(a.path, a.file_pattern, FALSE)
           n(p)  == MatchingLines(p, a, rx)
       IN  /\ result.nums[1] = SumSeq([i \in 1..Len(files) |-> n(files[i])])
           /\ result.nums[2] = Cardinality({i \in 1..Len(files) : n(files[i]) > 0})
           /\ result.nums[3] = Len(files)
           /\ Len(result.report) = result.nums[2]
           /\ \A k \in 1..Len(result.report) :
                 LET r == result.report[k]
                 IN  /\ Len(r.shown) <= 5
                     /\ Len(r.shown) + r.more = n(r.file)
                     /\ r.more > 0 => Len(r.shown) = 5

\* files with 1 and 7 matching lines: totals 8 and 2, the second file with
\* 5 lines and "2 more"
C22_Witness ==
    /\ result.msg = "Found"
    /\ result.nums = <<8, 2, 4>>
    /\ Len(result.report) = 2
    /\ Len(result.report[1].shown) = 1 /\ result.report[1].more = 0
    /\ Len(result.report[2].shown) = 5 /\ result.report[2].more = 2

\* the files a call on the directory root may read: those in root or, for
\* root ".", in a directory below it that is not hidden; not those of the
\* backup directory and not the hidden ones
Visible(root) ==
    {p \in DOMAIN fs :
        /\ p.dir # BACKUP_DIR
        /\ ~StartsWithDot(p.base)
        /\ p.dir = root \/ (root = "." /\ ~StartsWithDot(p.dir))}

\* C23: search_files and multi_file_edit never read, count or modify a
\* file of the backup directory, a file whose name starts with "." or a
\* file below a directory under the root whose name starts with "."; the
\* file_pattern filter applies to the files that remain.
C23_HiddenAndBackupsSkipped ==
    /\ (lastEdit.stage = "search" /\ result.msg \in {"Found", "No matches found for"})
       => LET a    == SearchArgs
              seen == {p \in Visible(a.path) :
                          /\ Decodable(fs[p])
                          /\ a.file_pattern # None => fnmatch(p.base, a.file_pattern[1])}
          IN  /\ result.nums[Len(result.nums)] = Cardinality(seen)
              /\ \A k \in 1..Len(result.report) : result.report[k].file \in seen
    /\ result.msg \in {"Successfully modified", "No files found containing"}
       => /\ \A k \in 1..Len(events) :
                /\ events[k].path \in Visible(".")
                /\ events[k].op \in {"copy", "write"}
                /\ events[k].op = "copy" => events[k].to[1].dir = BACKUP_DIR
          /\ \A k \in 1..Len(result.report) : result.report[k][1] \in Visible(".")

\* a search below the backup directory, which holds a backup with a match
C23_Witness ==
    /\ lastEdit.stage = "search"
    /\ SearchArgs.path = BACKUP_DIR
    /\ result.msg = "No matches found for"
    /\ result.nums = <<0>>
    /\ \E p \in DOMAIN fs : p.dir = BACKUP_DIR /\ Contains(fs[p], <<"x">>)

\* the file cannot be read as text
Unreadable(p) == \E i \in 1..Len(fs[p]) : fs[p][i] = BadByte

\* C24: a file that cannot be read during search_files is skipped and does
\* not end the search: the files that remain are searched, those with a
\* matching line are reported, and the skipped file is not counted in
\* files_searched.
C24_UnreadableSkipped ==
    lastEdit.stage = "search"
    => LET a      == SearchArgs
           rx     == re_compile(a.pattern, 1)
           walked == Walk(State, a.path, a.file_pattern, FALSE)
           files  == {walked[i] : i \in 1..Len(walked)}
       IN  (a.path \in dirs /\ ~(a.use_regex /\ rx.raised))
           => /\ result.msg \in {"Found", "No matches found for"}
              /\ result.nums[Len(result.nums)]
                    = Cardinality({p \in files : ~Unreadable(p)})
              /\ \A k \in 1..Len(result.report) : ~Unreadable(result.report[k].file)
              /\ \A p \in files :
                    (~Unreadable(p) /\ MatchingLines(p, a, rx.text) > 0)
                    => \E k \in 1..Len(result.report) : result.report[k].file = p

\* a search in the directory of the unreadable file that reported a file it
\* could read
C24_Witness ==
    /\ lastEdit.stage = "search"
    /\ SearchArgs.path = "."
    /\ SearchArgs.file_pattern = None
    /\ BinaryFile \in DOMAIN fs /\ Unreadable(BinaryFile)
    /\ result.msg = "Found"
    /\ result.nums[3] = 4
    /\ result.report[1].file = UserPath("sub", "a.txt")

\* ----------------------------------------------- properties: command output
\* C25: run_command never returns an empty string: a command that writes
\* nothing to stdout and stderr and exits with code zero yields the "no
\* output" message, a non-empty stdout or stderr yields its own labelled
\* section, and a non-zero exit code yields an "Exit code" line.
C25_NeverEmptyResult ==
    lastEdit.stage = "run"
    => /\ result.msg # ""
       /\ (/\ lastEdit.working_directory \in dirs
           /\ is_command_safe(lastEdit.command)
           /\ ~lastEdit.proc.timed_out)
          => LET pr      == lastEdit.proc
                 has(l)  == \E k \in 1..Len(result.report) : result.report[k] = l
             IN  /\ has("Output") <=> pr.stdout
                 /\ has("Errors") <=> pr.stderr
                 /\ has("Exit code") <=> pr.returncode # 0
                 /\ (~pr.stdout /\ ~pr.stderr /\ pr.returncode = 0)
                    <=> result.msg = "Command completed successfully with no output"

\* a command that ran, wrote nothing and exited with code zero
C25_Witness ==
    /\ lastEdit.stage = "run"
    /\ lastEdit.command = CmdLs
    /\ lastEdit.proc = NoProc
    /\ CmdLs \in spawned
    /\ result.msg = "Command completed successfully with no output"

\* ------------------------------------------------- properties: tool surface
\* C26: the tool list offered to the model is exactly read_file, list_files,
\* edit_file, search_files, multi_file_edit, run_command and undo_last_edit
\* with the required fields path; none; path and new_text; pattern; old_text
\* and new_text; command; none, and every declared tool name resolves to a
\* handler in dispatch: called with its required fields or with none at all,
\* none of them yields "Unknown tool".
C26_ToolSurface ==
    LET values == [path |-> UserPath(".", "a.txt"), new_text |-> <<"y">>,
                   old_text |-> <<"x">>, pattern |-> <<"x">>, command |-> CmdLs]
        given(k) == [f \in tools[k].required |-> values[f]]
    IN  /\ [k \in 1..Len(tools) |-> tools[k].name]
             = <<"read_file", "list_files", "edit_file", "search_files",
                 "multi_file_edit", "run_command", "undo_last_edit">>
        /\ [k \in 1..Len(tools) |-> tools[k].required]
             = <<{"path"}, {}, {"path", "new_text"}, {"pattern"},
                 {"old_text", "new_text"}, {"command"}, {}>>
        /\ \A k \in 1..Len(tools) :
              /\ execute_tool(State, tools[k].name, given(k), NoEnv).result.msg
                    \notin {"Unknown tool", "Error executing"}
              /\ execute_tool(State, tools[k].name, NoInput, NoEnv).result.msg
                    # "Unknown tool"
              /\ tools[k].name \in Declared
              /\ tools[k].required = required(tools[k].name)
        /\ \A k \in 1..Len(tool_results) :
              tool_results[k].content.msg = "Unknown tool"
              => \A j \in 1..Len(tools) : tools[j].name # tool_results[k].content.name

\* the dispatcher answered an offered tool with that tool's own result and a
\* tool that is not offered with "Unknown tool"
C26_Witness ==
    /\ pc = "tools"
    /\ Len(tool_results) = 2
    /\ response[1].type = "tool_use" /\ response[1].name = "edit_file"
    /\ tool_results[1].content.msg = "Successfully edited"
    /\ response[3].name = "undo_last_edit"
    /\ tool_results[2].content.msg \notin {"Unknown tool", "Error executing"}

\* ------------------------------------------------ properties: command denylist
\* s[a..b] is a non-empty run of whitespace
SpaceRun(s, a, b) == a <= b /\ b <= Len(s) /\ \A k \in a..b : IsSpace(s[k])

\* a word starts or ends between s[i - 1] and s[i]
WordEdge(s, i) == IsWord(s, i - 1) # IsWord(s, i)

\* the word w stands in s as a word of its own
HasWord(s, w) ==
    \E i \in 1..Len(s) : WordEdge(s, i) /\ MatchAt(s, w, i) /\ WordEdge(s, i + Len(w))

\* the five kinds of command the denylist names, said on the lower-cased
\* command: "rm -rf /...", the words "format" and "mkfs", "dd if=..." and
\* a redirection to /dev/sd...
Denied(command) ==
    LET s == Lower(command)
    IN  \/ \E i \in 1..Len(s) :
              /\ WordEdge(s, i) /\ MatchAt(s, <<"r", "m">>, i)
              /\ \E j \in (i + 3)..Len(s) :
                    /\ SpaceRun(s, i + 2, j - 1) /\ MatchAt(s, <<"-", "r", "f">>, j)
                    /\ \E k \in (j + 4)..Len(s) : SpaceRun(s, j + 3, k - 1) /\ s[k] = "/"
        \/ HasWord(s, <<"f", "o", "r", "m", "a", "t">>)
        \/ HasWord(s, <<"m", "k", "f", "s">>)
        \/ \E i \in 1..Len(s) :
              /\ WordEdge(s, i) /\ MatchAt(s, <<"d", "d">>, i)
              /\ \E j \in (i + 3)..Len(s) :
                    SpaceRun(s, i + 2, j - 1) /\ MatchAt(s, <<"i", "f", "=">>, j)
        \/ \E i \in 1..Len(s) :
              /\ s[i] = ">"
              /\ \E j \in (i + 1)..Len(s) :
                    /\ \A k \in (i + 1)..(j - 1) : IsSpace(s[k])
                    /\ MatchAt(s, <<"/", "d", "e", "v", "/", "s", "d">>, j)

\* C27: is_command_safe(c) is false exactly when c matches, whatever its
\* case, one of the five denylist patterns, and true for every other
\* command, also one with pipes and chaining; "rm -rf /" is unsafe and
\* "ls -la" is safe; the verdict depends on the command text only: a
\* command run in an existing directory is blocked exactly when it matches.
C27_DenylistExact ==
    /\ \A c \in Commands : is_command_safe(c) <=> ~Denied(c)
    /\ ~is_command_safe(CmdRmRoot)
    /\ is_command_safe(CmdLs)
    /\ is_command_safe(CmdPipe)
    /\ (lastEdit.stage = "run" /\ lastEdit.working_directory \in dirs)
       => (result.msg = "Command blocked for safety reasons" <=> Denied(lastEdit.command))

\* a redirection to a disk device was blocked after a pipeline had run
C27_Witness ==
    /\ lastEdit.stage = "run"
    /\ lastEdit.command = CmdDev
    /\ result.msg = "Command blocked for safety reasons"
    /\ CmdPipe \in spawned
    /\ CmdDev \notin spawned

\* ------------------------------------------------ properties: backup directory
\* C28: create_backup(path) performs no I/O and returns null when path does
\* not exist; when path exists it creates the backup directory if that
\* directory is absent at the time of the call and returns the path of a
\* backup holding the file's current content.  Seen on edit_file, which
\* calls create_backup first and records what it returned.
C28_BackupDirOnDemand ==
    lastEdit.stage = "edited"
    => /\ lastEdit.before = None
          => /\ \A k \in 1..Len(events) : events[k].op # "copy"
             /\ lastEdit.msg = "Successfully created"
                => edit_history[Len(edit_history)].backup_path = None
       /\ lastEdit.before # None
          => /\ BACKUP_DIR \in dirs
             /\ Len(events) >= 1
             /\ events[1].op = "copy"
             /\ events[1].path = lastEdit.path
             /\ events[1].to[1].dir = BACKUP_DIR
             /\ events[1].content = lastEdit.before[1]
             /\ lastEdit.msg \in {"Successfully edited", "Successfully created"}
                => edit_history[Len(edit_history)].backup_path = events[1].to

\* ------------------------------------------------- properties: end of a turn
\* the last response holds no tool_use block
NoToolUse == ToolUses([content |-> response]) = <<>>

\* C29: a user turn ends if and only if the model emits a response without
\* tool_use blocks or a model call fails: no other step of the loop ends it,
\* whatever the number of round trips made, so a model that answers every
\* call with a tool_use block keeps the turn running; and a response without
\* tool_use blocks does end it.
C29_TurnEndsByModelOnly ==
    /\ [][(pc # "idle" /\ pc' = "idle")
          => \/ pc = "call" /\ returned'.kind = "error" /\ ncalls' = ncalls
             \/ pc = "tools" /\ NoToolUse /\ returned'.kind = "answer"]_vars
    /\ [][(pc = "tools" /\ ~NoToolUse) => pc' \in {"tools", "call"}]_vars
    /\ (pc = "tools" /\ NoToolUse) ~> (pc = "idle")

\* one turn in which every model call allowed so far was answered with
\* tool_use blocks: the turn is still running and about to call the model
C29_Witness ==
    /\ nturns = 1
    /\ nreturns = 0
    /\ ncalls = MaxCalls
    /\ pc = "call"
    /\ Len(messages) = 1 + 2 * MaxCalls

\* --------------------------------------------------- properties: backups kept
\* the files of the backup directory
BackupFiles(f) == {p \in DOMAIN f : p.dir = BACKUP_DIR}

\* C30 as stated: no operation of the agent (edit_file, multi_file_edit,
\* undo_last_edit, search_files, read_file, list_files) ever deletes a file
\* from the backup directory: the set of backup file names only grows.
C30_BackupsNeverDeleted == [][BackupFiles(fs) \subseteq BackupFiles(fs')]_vars

\* C30, amended: a file leaves the backup directory only when
\* undo_last_edit pops a "create" entry whose path is that file, which an
\* edit_file call on a path inside the backup directory has pushed; no other
\* operation, and no undo of an "edit" entry, deletes a file there.
C30_BackupsDeletedOnlyByUndoCreate ==
    [][\A p \in BackupFiles(fs) \ BackupFiles(fs') :
          /\ edit_history # <<>>
          /\ LastEntry.action = "create"
          /\ LastEntry.path = p
          /\ edit_history' = SubSeq(edit_history, 1, Len(edit_history) - 1)
          /\ result'.msg = "Undone: Removed newly created file"
          /\ BackupFiles(fs') = BackupFiles(fs) \ {p}]_vars

\* a backup of a.txt was overwritten by edit_file and then deleted by the
\* undo; the backup taken of the backup is what remains
C30_Witness ==
    /\ lastEdit.stage = "undone"
    /\ lastEdit.path.dir = BACKUP_DIR
    /\ lastEdit.path.ts # NoTs
    /\ lastEdit.path \notin DOMAIN fs
    /\ result.msg = "Undone: Removed newly created file"
    /\ \E q \in BackupFiles(fs) : q.base = BackupFileName(lastEdit.path.base, lastEdit.path.ts)

\* ------------------------------------------------ properties: series of edits
\* C31: after any n successful Replace-branch edit_file calls, to any files
\* and at any times (also two edits of one file, or of two files with the
\* same base name, within one second), followed by n undo_last_edit calls,
\* every edited file holds the content it had before the first of the edits.
C31_SeriesUndoRestores ==
    (series.edits > 0 /\ series.undone = series.edits)
    => \A p \in series.files : p \in DOMAIN fs /\ fs[p] = series.pre[p]

\* ------------------------------------------------- properties: the transcript
\* C32: at every model call the transcript strictly alternates user and
\* assistant messages, starting with a user message, across any number of
\* turns, also after a turn that ended because a model call failed.
C32_TranscriptAlternates ==
    pc = "call"
    => /\ messages # <<>>
       /\ \A k \in 1..Len(messages) :
             messages[k].role = IF k % 2 = 1 THEN "user" ELSE "assistant"

\* ------------------------------------------------ properties: history length
\* C33: the history length changes only as follows: a successful edit_file
\* adds exactly one entry, a multi_file_edit without dry_run adds exactly one
\* entry per file it modified, a failed edit adds none, and undo_last_edit on
\* a non-empty history removes exactly one entry, also when the restore fails
\* with "Backup not found"; the entries below are never changed.
C33_HistoryLength ==
    LET c == lastCall
    IN  /\ c.kept
        /\ c.popped > 0 => c.pushed = <<>>
        /\ c.name = "edit_file"
           => /\ c.popped = 0
              /\ Len(c.pushed) =
                   IF result.msg \in {"Successfully edited", "Successfully created"}
                   THEN 1 ELSE 0
        /\ c.name = "multi_file_edit"
           => /\ c.popped = 0
              /\ result.msg = "Successfully modified"
                 => /\ Len(c.pushed) = Len(result.report)
                    /\ \A k \in 1..Len(c.pushed) : c.pushed[k].path = result.report[k][1]
              /\ result.msg # "Successfully modified" => c.pushed = <<>>
        /\ c.name = "undo_last_edit"
           => /\ c.pushed = <<>>
              /\ IF result.msg = "No edits to undo"
                 THEN c.popped = 0 /\ edit_history = <<>>
                 ELSE c.popped = 1
        /\ c.name \notin {"edit_file", "multi_file_edit", "undo_last_edit"}
           => c.pushed = <<>> /\ c.popped = 0

\* an undo whose backup had been removed consumed its entry and left the
\* entry below it
C33_Witness ==
    /\ lastCall.name = "undo_last_edit"
    /\ result.msg = "Error: Backup not found for"
    /\ lastCall.popped = 1
    /\ Len(edit_history) = 1

\* ------------------------------------------------ properties: read-only tools
\* C34: read_file, list_files and search_files, whether they succeed or
\* fail, leave every file's content, the set and content of the backups and
\* the history as they were; they make no directory and start no process.
C34_ReadOnlyTools ==
    lastCall.name \in {"read_file", "list_files", "search_files"}
    => /\ lastCall.changed = {}
       /\ lastCall.pushed = <<>>
       /\ lastCall.popped = 0
       /\ lastCall.dirs = {}
       /\ lastCall.spawned = {}

\* a read_file that failed on a file that does not exist, with a backup on
\* disk and an entry in the history
C34_Witness ==
    /\ lastCall.name = "read_file"
    /\ result.msg = "File not found"
    /\ edit_history # <<>>
    /\ \E p \in DOMAIN fs : p.dir = BACKUP_DIR

\* ---------------------------------------------- properties: history entries
\* C35: in every reachable state each history entry with action "edit"
\* carries a backup path, and a "create" entry carries none exactly when its
\* target did not exist at the time of the edit (seen when edit_file pushes
\* it); a backup path that is recorded lies in the backup directory.
C35_EntryBackupPaths ==
    /\ \A k \in 1..Len(edit_history) :
          /\ edit_history[k].action \in {"edit", "create"}
          /\ edit_history[k].action = "edit" => edit_history[k].backup_path # None
          /\ edit_history[k].backup_path # None
             => edit_history[k].backup_path[1].dir = BACKUP_DIR
    /\ (lastEdit.stage = "edited" /\ lastCall.pushed # <<>>)
       => LET e == lastCall.pushed[1]
          IN  /\ e.path = lastEdit.path
              /\ e.action = "create" => (e.backup_path = None <=> lastEdit.before = None)
              /\ e.action = "edit" => lastEdit.before # None

\* an "edit" entry, and above it the "create" entry of an edit_file that
\* overwrote an existing file and so recorded a backup
C35_Witness ==
    /\ Len(edit_history) = 2
    /\ edit_history[1].action = "edit"
    /\ edit_history[2].action = "create"
    /\ edit_history[2].backup_path # None
    /\ lastEdit.stage = "edited"
    /\ lastEdit.before # None

\* --------------------------------------------- properties: omitted fields
\* C36: a tool call that omits a field its schema requires (path or
\* new_text of edit_file, old_text or new_text of multi_file_edit, path of
\* read_file, pattern of search_files, command of run_command) has no side
\* effect: no file, backup or history entry is created or changed, no
\* directory is made and no subprocess is started; the result is "Error
\* executing <tool>".
C36_OmittedFieldNoEffect ==
    (/\ lastCall.name \in {"edit_file", "multi_file_edit", "read_file", "search_files",
                           "run_command"}
     /\ \E f \in required(lastCall.name) : f \notin lastCall.fields)
    => /\ lastCall.missing
       /\ result.msg = "Error executing"
       /\ result.name = lastCall.name
       /\ lastCall.changed = {}
       /\ lastCall.pushed = <<>>
       /\ lastCall.popped = 0
       /\ lastCall.dirs = {}
       /\ lastCall.spawned = {}

\* an edit_file call that named a file that does not exist, in a directory
\* that does not exist, and gave no new_text: neither was created
C36_Witness ==
    /\ lastCall.name = "edit_file"
    /\ lastCall.fields = {"path"}
    /\ result.msg = "Error executing"
    /\ UserPath("new", "n.txt") \notin DOMAIN fs
    /\ "new" \notin dirs

\* ----------------------------------------- properties: a batch that fails
\* C37: every file whose content a non-dry-run multi_file_edit changes has
\* exactly one 'edit' history entry pushed for it by that call, also when
\* the batch stops part-way with an "Error in multi-file edit" result.
C37_ChangedFilesHaveEntries ==
    lastCall.name = "multi_file_edit"
    => \A p \in {q \in lastCall.changed : q.dir # BACKUP_DIR} :
          Cardinality({k \in 1..Len(lastCall.pushed) :
                          /\ lastCall.pushed[k].path = p
                          /\ lastCall.pushed[k].action = "edit"}) = 1

====
